---- MODULE Spec2Model ----
(***************************************************************************)
(* Brevit.js: the Flatten encoder of BrevitClient (_flatten, the prefix    *)
(* abbreviation pass and _flattenObject).                                  *)
(*                                                                         *)
(* A JavaScript string is modelled as a sequence of one-character strings, *)
(* so that indexOf, split, substring and startsWith are computed the way   *)
(* the code computes them.  A JavaScript value is a tagged record:         *)
(*   [t |-> "null"], [t |-> "undefined"], [t |-> "boolean", b |-> ...],    *)
(*   [t |-> "number", n |-> ...], [t |-> "string", s |-> ...],             *)
(*   [t |-> "object", e |-> <<[k |-> key, v |-> value], ...>>] with the    *)
(*   entries in the order Object.keys enumerates them (distinct keys),     *)
(*   [t |-> "array", a |-> <<value, ...>>],                                *)
(*   [t |-> "function", src |-> source text], [t |-> "bytes", n |-> size]. *)
(***************************************************************************)
EXTENDS Integers, Sequences, FiniteSets, TLC

VARIABLES
  config,             \* this._config: enableAbbreviations, abbreviationThreshold
  node,               \* the value handed to _flatten
  prefix,             \* the key path handed to _flatten ('' from _flattenObject)
  pc,                 \* position inside _flattenObject
  output,             \* const output = []
  paths,              \* const paths = output.map(...)
  abbreviationMap,    \* Map prefix -> alias, in insertion order
  definitions,        \* the "@alias=prefix" lines
  abbreviatedOutput,  \* output.map(line => ...)
  result,             \* the returned string
  history,            \* the encode calls the client has completed, in order
  calls,              \* the optimize()/brevity() calls made on the client
  microtasks,         \* the calls whose await is settled, in resumption order
  invoked,            \* the texts handed to this._textOptimizer, in order
  heap,               \* the objects and arrays of a value graph, by reference
  stack               \* the active _flatten invocations, innermost last

\* the state of the client facade, of the call history and of the graph walk
clientVars == <<calls, microtasks, invoked>>
walkVars == <<heap, stack>>

vars == <<config, node, prefix, pc, output, paths, abbreviationMap,
          definitions, abbreviatedOutput, result, history, clientVars,
          walkVars>>

(***************************************************************************)
(* JavaScript string primitives                                            *)
(***************************************************************************)
Range(seq) == {seq[i] : i \in 1..Len(seq)}

\* str.includes(ch), ch one character
includes(str, ch) == \E i \in 1..Len(str) : str[i] = ch

\* str.indexOf(ch): 0-based index of the first occurrence, -1 when absent
indexOf(str, ch) ==
  IF includes(str, ch)
  THEN (CHOOSE i \in 1..Len(str) :
          str[i] = ch /\ \A j \in 1..(i - 1) : str[j] # ch) - 1
  ELSE -1

\* str.substring(from, to), 0-based, to exclusive
substring(str, from, to) == SubSeq(str, from + 1, to)

\* str.substring(from)
substringFrom(str, from) == SubSeq(str, from + 1, Len(str))

\* str.startsWith(head)
startsWith(str, head) ==
  Len(head) <= Len(str) /\ SubSeq(str, 1, Len(head)) = head

\* str.split(sep), sep one character
RECURSIVE split(_, _)
split(str, sep) ==
  LET i == indexOf(str, sep)
  IN  IF i = -1 THEN <<str>>
      ELSE <<substring(str, 0, i)>> \o split(substringFrom(str, i + 1), sep)

\* parts.join(sep)
RECURSIVE join(_, _)
join(parts, sep) ==
  IF Len(parts) = 0 THEN <<>>
  ELSE IF Len(parts) = 1 THEN parts[1]
  ELSE parts[1] \o sep \o join(Tail(parts), sep)

UpperCase ==
  <<"A", "B", "C", "D", "E", "F", "G", "H", "I", "J", "K", "L", "M",
    "N", "O", "P", "Q", "R", "S", "T", "U", "V", "W", "X", "Y", "Z">>

LowerCase ==
  <<"a", "b", "c", "d", "e", "f", "g", "h", "i", "j", "k", "l", "m",
    "n", "o", "p", "q", "r", "s", "t", "u", "v", "w", "x", "y", "z">>

\* str.toLowerCase()
toLowerCase(str) ==
  [i \in 1..Len(str) |->
     IF \E u \in 1..Len(UpperCase) : UpperCase[u] = str[i]
     THEN LowerCase[CHOOSE u \in 1..Len(UpperCase) : UpperCase[u] = str[i]]
     ELSE str[i]]

Digits == <<"0", "1", "2", "3", "4", "5", "6", "7", "8", "9">>

\* String(n) for an integer n
RECURSIVE NumberToString(_)
NumberToString(n) ==
  IF n < 0 THEN <<"-">> \o NumberToString(0 - n)
  ELSE IF n < 10 THEN <<Digits[n + 1]>>
  ELSE NumberToString(n \div 10) \o <<Digits[(n % 10) + 1]>>

(***************************************************************************)
(* JavaScript values                                                       *)
(***************************************************************************)
VNull == [t |-> "null"]
VUndefined == [t |-> "undefined"]
VBool(b) == [t |-> "boolean", b |-> b]
VNum(n) == [t |-> "number", n |-> n]
VStr(s) == [t |-> "string", s |-> s]
VObj(entries) == [t |-> "object", e |-> entries]
VArr(items) == [t |-> "array", a |-> items]
VFunc(src) == [t |-> "function", src |-> src]
VBytes(n) == [t |-> "bytes", n |-> n]
Entry(key, value) == [k |-> key, v |-> value]

\* typeof v === 'object' && v !== null && !Array.isArray(v)
IsPlainObject(v) == v.t = "object"

\* Array.isArray(v)
IsArray(v) == v.t = "array"

\* typeof v === 'object' && v !== null
IsNonNullObject(v) == v.t \in {"object", "array"}

\* Object.keys(item)
ObjectKeys(item) == [i \in 1..Len(item.e) |-> item.e[i].k]

\* item[key]
Get(item, key) ==
  IF \E i \in 1..Len(item.e) : item.e[i].k = key
  THEN item.e[CHOOSE i \in 1..Len(item.e) : item.e[i].k = key].v
  ELSE VUndefined

\* left ?? right
Coalesce(left, right) ==
  IF left.t \in {"null", "undefined"} THEN right ELSE left

\* String(value)
RECURSIVE String(_)
String(value) ==
  CASE value.t = "null" -> <<"n", "u", "l", "l">>
    [] value.t = "undefined" -> <<"u", "n", "d", "e", "f", "i", "n", "e", "d">>
    [] value.t = "boolean" ->
         IF value.b THEN <<"t", "r", "u", "e">> ELSE <<"f", "a", "l", "s", "e">>
    [] value.t = "number" -> NumberToString(value.n)
    [] value.t = "string" -> value.s
    [] value.t = "object" ->
         <<"[", "o", "b", "j", "e", "c", "t", " ", "O", "b", "j", "e", "c", "t", "]">>
    [] value.t = "array" ->
         join([i \in 1..Len(value.a) |->
                 IF value.a[i].t \in {"null", "undefined"} THEN <<>>
                 ELSE String(value.a[i])],
              <<",">>)
    [] value.t = "function" -> value.src

(***************************************************************************)
(* Array classification                                                    *)
(***************************************************************************)
\* a variant of _isUniformObjectArray: the numbers of keys are not compared
_isUniformObjectArray_NoCount(arr) ==
  IF ~IsArray(arr) \/ Len(arr.a) = 0 THEN VNull
  ELSE
    LET firstItem == arr.a[1] IN
    IF ~IsPlainObject(firstItem) THEN VNull
    ELSE
      LET firstKeys == ObjectKeys(firstItem)
          firstKeySet == Range(firstKeys)
      IN  IF \A i \in 2..Len(arr.a) :
               /\ IsPlainObject(arr.a[i])
               /\ \A j \in 1..Len(arr.a[i].e) : arr.a[i].e[j].k \in firstKeySet
          THEN [keys |-> firstKeys]
          ELSE VNull

_isUniformObjectArray(arr) ==
  IF ~IsArray(arr) \/ Len(arr.a) = 0 THEN VNull
  ELSE
    LET firstItem == arr.a[1] IN
    IF ~IsPlainObject(firstItem) THEN VNull
    ELSE
      LET firstKeys == ObjectKeys(firstItem)
          firstKeySet == Range(firstKeys)
      IN  IF \A i \in 2..Len(arr.a) :
               /\ IsPlainObject(arr.a[i])
               /\ Len(firstKeys) = Len(ObjectKeys(arr.a[i]))
               /\ \A j \in 1..Len(arr.a[i].e) : arr.a[i].e[j].k \in firstKeySet
          THEN [keys |-> firstKeys]
          ELSE VNull

\* a variant of _isPrimitiveArray: typeof x === 'object' without the null test
_isPrimitiveArray_NullIsObject(arr) ==
  IF ~IsArray(arr) \/ Len(arr.a) = 0 THEN FALSE
  ELSE \A i \in 1..Len(arr.a) : arr.a[i].t \notin {"object", "array", "null"}

_isPrimitiveArray(arr) ==
  IF ~IsArray(arr) \/ Len(arr.a) = 0 THEN FALSE
  ELSE IF IsNonNullObject(arr.a[1]) THEN FALSE
  ELSE \A i \in 2..Len(arr.a) : ~IsNonNullObject(arr.a[i])

(***************************************************************************)
(* Rendering                                                               *)
(***************************************************************************)
\* str.replace(/"/g, '\\"')
RECURSIVE replaceQuotes(_)
replaceQuotes(str) ==
  IF Len(str) = 0 THEN <<>>
  ELSE (IF str[1] = "\"" THEN <<"\\", "\"">> ELSE <<str[1]>>)
         \o replaceQuotes(Tail(str))

\* a variant of _escapeValue: the quotes inside the value are kept as they are
_escapeValue_NoEscape(value) ==
  LET str == String(value)
  IN  IF includes(str, ",") \/ includes(str, "\n") \/ includes(str, "\"")
      THEN <<"\"">> \o str \o <<"\"">>
      ELSE str

_escapeValue(value) ==
  LET str == String(value)
  IN  IF includes(str, ",") \/ includes(str, "\n") \/ includes(str, "\"")
      THEN <<"\"">> \o replaceQuotes(str) \o <<"\"">>
      ELSE str

\* a variant of _formatTabularArray: a row follows its own element's key order
_formatTabularArray_OwnOrder(arr, pfx) ==
  LET keys == _isUniformObjectArray(arr).keys
      header == pfx \o <<"[">> \o NumberToString(Len(arr.a)) \o <<"]", "{">>
                  \o join(keys, <<",">>) \o <<"}", ":">>
      rows == [i \in 1..Len(arr.a) |->
                 join([j \in 1..Len(arr.a[i].e) |->
                         _escapeValue(Coalesce(arr.a[i].e[j].v,
                                               VStr(<<"n", "u", "l", "l">>)))],
                      <<",">>)]
  IN  header \o <<"\n">> \o join(rows, <<"\n">>)

_formatTabularArray(arr, pfx) ==
  LET keys == _isUniformObjectArray(arr).keys
      header == pfx \o <<"[">> \o NumberToString(Len(arr.a)) \o <<"]", "{">>
                  \o join(keys, <<",">>) \o <<"}", ":">>
      rows == [i \in 1..Len(arr.a) |->
                 join([j \in 1..Len(keys) |->
                         _escapeValue(Coalesce(Get(arr.a[i], keys[j]),
                                               VStr(<<"n", "u", "l", "l">>)))],
                      <<",">>)]
  IN  header \o <<"\n">> \o join(rows, <<"\n">>)

_formatPrimitiveArray(arr, pfx) ==
  LET values == [i \in 1..Len(arr.a) |-> _escapeValue(arr.a[i])]
  IN  pfx \o <<"[">> \o NumberToString(Len(arr.a)) \o <<"]", ":">>
        \o join(values, <<",">>)

(***************************************************************************)
(* _flatten                                                                *)
(***************************************************************************)
\* a variant of fieldPrefix: the dot is written at the root too
fieldPrefix_AlwaysDot(pfx, key) == pfx \o <<".">> \o key

\* const newPrefix = prefix ? `${prefix}.${key}` : key
fieldPrefix(pfx, key) == IF pfx # <<>> THEN pfx \o <<".">> \o key ELSE key

\* a variant of indexPrefix: elements are numbered from 1
indexPrefix_OneBased(pfx, index) ==
  pfx \o <<"[">> \o NumberToString(index + 1) \o <<"]">>

\* const newPrefix = `${prefix}[${index}]`, index 0-based
indexPrefix(pfx, index) == pfx \o <<"[">> \o NumberToString(index) \o <<"]">>

\* if (!prefix) prefix = 'value'; `${prefix}:${String(node)}`
scalarLine(value, pfx) ==
  (IF pfx = <<>> THEN <<"v", "a", "l", "u", "e">> ELSE pfx)
    \o <<":">> \o String(value)

RECURSIVE _flatten(_, _, _)
RECURSIVE forEachEntry(_, _, _, _)
RECURSIVE forEachItem(_, _, _, _)

\* Object.entries(node).forEach(([key, value]) => ...), from entry i on
forEachEntry(entries, i, pfx, out) ==
  IF i > Len(entries) THEN out
  ELSE forEachEntry(entries, i + 1, pfx,
                    _flatten(entries[i].v, fieldPrefix(pfx, entries[i].k), out))

\* node.forEach((item, index) => ...), from item i on (index = i - 1)
forEachItem(items, i, pfx, out) ==
  IF i > Len(items) THEN out
  ELSE forEachItem(items, i + 1, pfx,
                   _flatten(items[i], indexPrefix(pfx, i - 1), out))

_flatten(value, pfx, out) ==
  IF IsPlainObject(value) THEN forEachEntry(value.e, 1, pfx, out)
  ELSE IF IsArray(value) THEN
    IF _isUniformObjectArray(value) # VNull
    THEN Append(out, _formatTabularArray(value, pfx))
    ELSE IF _isPrimitiveArray(value)
    THEN Append(out, _formatPrimitiveArray(value, pfx))
    ELSE forEachItem(value.a, 1, pfx, out)
  ELSE Append(out, scalarLine(value, pfx))

(***************************************************************************)
(* Prefix abbreviation                                                     *)
(***************************************************************************)
\* A Map is the sequence of its [key, value] entries in insertion order.
MapHas(map, key) == \E i \in 1..Len(map) : map[i].key = key

MapGet(map, key) == map[CHOOSE i \in 1..Len(map) : map[i].key = key].value

MapSet(map, key, value) ==
  IF MapHas(map, key)
  THEN [i \in 1..Len(map) |->
          IF map[i].key = key THEN [key |-> key, value |-> value] ELSE map[i]]
  ELSE Append(map, [key |-> key, value |-> value])

\* the path of one output line, as _flattenObject extracts it
extractPath(line) ==
  LET colonIndex == indexOf(line, ":")
  IN  IF colonIndex > 0
      THEN LET pathPart == substring(line, 0, colonIndex)
               bracketIndex == indexOf(pathPart, "[")
           IN  IF bracketIndex > 0
               THEN substring(pathPart, 0, bracketIndex)
               ELSE pathPart
      ELSE split(line, ":")[1]

\* for (let i = 1; i < parts.length; i++) { prefixCounts.set(...) }
RECURSIVE countPrefixes(_, _, _)
countPrefixes(parts, i, prefixCounts) ==
  IF i >= Len(parts) THEN prefixCounts
  ELSE LET pfx == join(SubSeq(parts, 1, i), <<".">>)
           old == IF MapHas(prefixCounts, pfx) THEN MapGet(prefixCounts, pfx)
                  ELSE 0
       IN  countPrefixes(parts, i + 1, MapSet(prefixCounts, pfx, old + 1))

\* paths.forEach(path => ...), from path i on
RECURSIVE countPaths(_, _, _)
countPaths(pathList, i, prefixCounts) ==
  IF i > Len(pathList) THEN prefixCounts
  ELSE countPaths(pathList, i + 1,
                  countPrefixes(split(pathList[i], "."), 1, prefixCounts))

\* a variant of filterFrequent: the threshold is not applied
filterFrequent_NoThreshold(entries, cfg) ==
  LET Keep(e) == e.value >= 1
  IN  SelectSeq(entries, Keep)

\* .filter(([prefix, count]) => count >= this._config.abbreviationThreshold)
filterFrequent(entries, cfg) ==
  LET Keep(e) == e.value >= cfg.abbreviationThreshold
  IN  SelectSeq(entries, Keep)

\* a variant of comparePrefixes: among equal counts the longer prefix is first
comparePrefixes_LongerFirst(a, b) ==
  IF b.value # a.value THEN b.value - a.value ELSE Len(b.key) - Len(a.key)

\* the comparator of .sort: count descending, then length ascending
comparePrefixes(a, b) ==
  IF b.value # a.value THEN b.value - a.value ELSE Len(a.key) - Len(b.key)

\* Array.prototype.sort is stable: x goes behind every entry not after it
RECURSIVE insertSorted(_, _)
insertSorted(sorted, x) ==
  IF sorted = <<>> THEN <<x>>
  ELSE IF comparePrefixes(Head(sorted), x) <= 0
  THEN <<Head(sorted)>> \o insertSorted(Tail(sorted), x)
  ELSE <<x>> \o sorted

RECURSIVE sortPrefixes(_)
sortPrefixes(entries) ==
  IF entries = <<>> THEN <<>>
  ELSE insertSorted(sortPrefixes(SubSeq(entries, 1, Len(entries) - 1)),
                    entries[Len(entries)])

\* Strategy 3: do { abbr = chr(97 + num % 26) + abbr; num = floor(num / 26) - 1 }
\* while (num >= 0)
RECURSIVE counterAbbreviation(_, _)
counterAbbreviation(abbr, num) ==
  LET abbr2 == <<LowerCase[(num % 26) + 1]>> \o abbr
      num2 == (num \div 26) - 1
  IN  IF num2 >= 0 THEN counterAbbreviation(abbr2, num2) ELSE abbr2

\* prefix.split('.')[0][0] is undefined, and .toLowerCase() throws a TypeError
firstLetterThrows(pfx) == split(pfx, ".")[1] = <<>>

\* a variant of _generateAbbreviation: the initials are taken whatever their
\* number
_generateAbbreviation_NoLimit(pfx, counter, usedAbbrs) ==
  LET parts == split(pfx, ".")
      firstLetter == toLowerCase(<<parts[1][1]>>)
      multiLetter ==
        toLowerCase(join([i \in 1..Len(parts) |->
                            IF parts[i] = <<>> THEN <<>> ELSE <<parts[i][1]>>],
                         <<>>))
      counted == counterAbbreviation(<<>>, counter)
  IN  IF firstLetter \notin usedAbbrs
      THEN [abbr |-> firstLetter, usedAbbrs |-> usedAbbrs \cup {firstLetter}]
      ELSE IF Len(parts) > 1 /\ multiLetter \notin usedAbbrs
      THEN [abbr |-> multiLetter, usedAbbrs |-> usedAbbrs \cup {multiLetter}]
      ELSE [abbr |-> counted, usedAbbrs |-> usedAbbrs \cup {counted}]

\* returns the alias and the updated usedAbbrs
_generateAbbreviation(pfx, counter, usedAbbrs) ==
  LET parts == split(pfx, ".")
      firstLetter == toLowerCase(<<parts[1][1]>>)
      multiLetter ==
        toLowerCase(join([i \in 1..Len(parts) |->
                            IF parts[i] = <<>> THEN <<>> ELSE <<parts[i][1]>>],
                         <<>>))
      counted == counterAbbreviation(<<>>, counter)
  IN  IF firstLetter \notin usedAbbrs
      THEN [abbr |-> firstLetter, usedAbbrs |-> usedAbbrs \cup {firstLetter}]
      ELSE IF Len(parts) > 1 /\ multiLetter \notin usedAbbrs
                /\ Len(multiLetter) <= 3
      THEN [abbr |-> multiLetter, usedAbbrs |-> usedAbbrs \cup {multiLetter}]
      ELSE [abbr |-> counted, usedAbbrs |-> usedAbbrs \cup {counted}]

\* const definitionCost = prefix.length + abbr.length + 3
definitionCost(pfx, abbr) == Len(pfx) + Len(abbr) + 3

\* const savings = (prefix.length - abbr.length - 1) * count
savings(pfx, abbr, count) == (Len(pfx) - Len(abbr) - 1) * count

\* a variant of accepts: the comparison is not strict
accepts_NotStrict(pfx, abbr, count) ==
  savings(pfx, abbr, count) >= definitionCost(pfx, abbr)

\* if (savings > definitionCost)
accepts(pfx, abbr, count) == savings(pfx, abbr, count) > definitionCost(pfx, abbr)

\* `@${abbr}=${prefix}`
definitionLine(abbr, pfx) == <<"@">> \o abbr \o <<"=">> \o pfx

\* frequentPrefixes.forEach(([prefix, count]) => ...), from entry i on;
\* st holds abbreviationMap, definitions, abbrCounter, usedAbbrs, and threw
RECURSIVE generateLoop(_, _, _)
generateLoop(frequentPrefixes, i, st) ==
  IF i > Len(frequentPrefixes) \/ st.threw THEN st
  ELSE
    LET pfx == frequentPrefixes[i].key
        count == frequentPrefixes[i].value
    IN  IF firstLetterThrows(pfx) THEN [st EXCEPT !.threw = TRUE]
        ELSE
          LET g == _generateAbbreviation(pfx, st.abbrCounter, st.usedAbbrs)
          IN  generateLoop(frequentPrefixes, i + 1,
                IF accepts(pfx, g.abbr, count)
                THEN [map |-> MapSet(st.map, pfx, g.abbr),
                      definitions |->
                        Append(st.definitions, definitionLine(g.abbr, pfx)),
                      abbrCounter |-> st.abbrCounter + 1,
                      usedAbbrs |-> g.usedAbbrs,
                      threw |-> FALSE]
                ELSE [st EXCEPT !.usedAbbrs = g.usedAbbrs])

\* the candidates in the order they are offered aliases
frequentPrefixesOf(pathList, cfg) ==
  sortPrefixes(filterFrequent(countPaths(pathList, 1, <<>>), cfg))

\* a variant of _generateAbbreviations: enableAbbreviations is not consulted
_generateAbbreviations_IgnoreFlag(pathList, cfg) ==
  LET st == generateLoop(frequentPrefixesOf(pathList, cfg), 1,
                         [map |-> <<>>, definitions |-> <<>>,
                          abbrCounter |-> 0, usedAbbrs |-> {},
                          threw |-> FALSE])
  IN  [map |-> st.map, definitions |-> st.definitions, threw |-> st.threw]

_generateAbbreviations(pathList, cfg) ==
  IF ~cfg.enableAbbreviations
  THEN [map |-> <<>>, definitions |-> <<>>, threw |-> FALSE]
  ELSE LET st == generateLoop(frequentPrefixesOf(pathList, cfg), 1,
                              [map |-> <<>>, definitions |-> <<>>,
                               abbrCounter |-> 0, usedAbbrs |-> {},
                               threw |-> FALSE])
       IN  [map |-> st.map, definitions |-> st.definitions, threw |-> st.threw]

\* a variant of bestMatchLoop: the first matching entry of the map wins
RECURSIVE bestMatchLoop_FirstMatch(_, _, _, _)
bestMatchLoop_FirstMatch(path, map, i, best) ==
  IF i > Len(map) THEN best
  ELSE bestMatchLoop_FirstMatch(path, map, i + 1,
         IF startsWith(path, map[i].key \o <<".">>) /\ best.bestMatch = <<>>
         THEN [bestMatch |-> map[i].key, bestAbbr |-> map[i].value]
         ELSE best)

\* for (const [prefix, abbr] of abbreviationMap.entries()), from entry i on
RECURSIVE bestMatchLoop(_, _, _, _)
bestMatchLoop(path, map, i, best) ==
  IF i > Len(map) THEN best
  ELSE bestMatchLoop(path, map, i + 1,
         IF startsWith(path, map[i].key \o <<".">>)
              /\ Len(map[i].key) > Len(best.bestMatch)
         THEN [bestMatch |-> map[i].key, bestAbbr |-> map[i].value]
         ELSE best)

_applyAbbreviations(path, map, cfg) ==
  IF ~cfg.enableAbbreviations \/ Len(map) = 0 THEN path
  ELSE LET best == bestMatchLoop(path, map, 1,
                                 [bestMatch |-> <<>>, bestAbbr |-> <<>>])
       IN  IF best.bestMatch # <<>>
           THEN <<"@">> \o best.bestAbbr \o <<".">>
                  \o substringFrom(path, Len(best.bestMatch) + 1)
           ELSE path

\* the callback of output.map in _flattenObject
abbreviateLine(line, map, cfg) ==
  LET colonIndex == indexOf(line, ":")
  IN  IF colonIndex = -1 THEN line
      ELSE
        LET pathPart == substring(line, 0, colonIndex)
            valuePart == substringFrom(line, colonIndex)
            bracketIndex == indexOf(pathPart, "[")
        IN  IF bracketIndex > 0
            THEN _applyAbbreviations(substring(pathPart, 0, bracketIndex),
                                     map, cfg)
                   \o substringFrom(pathPart, bracketIndex) \o valuePart
            ELSE _applyAbbreviations(pathPart, map, cfg) \o valuePart

\* a variant of combine: the definitions block is written even when empty
combine_NoGuard(defs, lines) ==
  join(defs, <<"\n">>) \o <<"\n">> \o join(lines, <<"\n">>)

\* Combine: definitions first, then abbreviated output
combine(defs, lines) ==
  IF Len(defs) > 0
  THEN join(defs, <<"\n">>) \o <<"\n">> \o join(lines, <<"\n">>)
  ELSE join(lines, <<"\n">>)

\* the last two statements of _flattenObject, for the lines out and the
\* abbreviations g
abbreviateAndCombine(out, g, cfg) ==
  IF g.threw THEN [threw |-> TRUE, result |-> <<>>]
  ELSE [threw |-> FALSE,
        result |-> combine(g.definitions,
                           [i \in 1..Len(out) |->
                              abbreviateLine(out[i], g.map, cfg)])]

\* _flattenObject from the lines out of _flatten on
encodeLines(out, cfg) ==
  abbreviateAndCombine(
    out,
    _generateAbbreviations([i \in 1..Len(out) |-> extractPath(out[i])], cfg),
    cfg)

\* _flattenObject(obj) under this._config = cfg, as one function: threw tells
\* that _generateAbbreviations raised a TypeError, result is the returned string
_flattenObject(obj, cfg) == encodeLines(_flatten(obj, <<>>, <<>>), cfg)

(***************************************************************************)
(* JSON.stringify, JSON.parse and String.prototype.trim                    *)
(***************************************************************************)
\* QuoteJSONString: the quotes, with ", \ and the line feed escaped
RECURSIVE escapeJSON(_)
escapeJSON(str) ==
  IF Len(str) = 0 THEN <<>>
  ELSE (CASE str[1] = "\"" -> <<"\\", "\"">>
          [] str[1] = "\\" -> <<"\\", "\\">>
          [] str[1] = "\n" -> <<"\\", "n">>
          [] OTHER -> <<str[1]>>)
         \o escapeJSON(Tail(str))

quoteJSON(str) == <<"\"">> \o escapeJSON(str) \o <<"\"">>

\* a property with this value is left out of an object and is null in an array
IsUnserializable(v) == v.t \in {"undefined", "function"}

\* SerializeJSONProperty with the gap of the space argument and the current
\* indentation
RECURSIVE SerializeJSONProperty(_, _, _)
SerializeJSONProperty(v, gap, indent) ==
  LET inner == indent \o gap
      separator == IF gap = <<>> THEN <<",">> ELSE <<",", "\n">> \o inner
      wrap(open, partial, close) ==
        IF Len(partial) = 0 THEN open \o close
        ELSE IF gap = <<>> THEN open \o join(partial, separator) \o close
        ELSE open \o <<"\n">> \o inner \o join(partial, separator)
               \o <<"\n">> \o indent \o close
  IN  CASE v.t = "null" -> <<"n", "u", "l", "l">>
        [] v.t \in {"boolean", "number"} -> String(v)
        [] v.t = "string" -> quoteJSON(v.s)
        [] v.t = "array" ->
             wrap(<<"[">>,
                  [i \in 1..Len(v.a) |->
                     IF IsUnserializable(v.a[i]) THEN <<"n", "u", "l", "l">>
                     ELSE SerializeJSONProperty(v.a[i], gap, inner)],
                  <<"]">>)
        [] v.t = "object" ->
             LET Kept(en) == ~IsUnserializable(en.v)
                 kept == SelectSeq(v.e, Kept)
             IN  wrap(<<"{">>,
                      [i \in 1..Len(kept) |->
                         quoteJSON(kept[i].k) \o <<":">>
                           \o (IF gap = <<>> THEN <<>> ELSE <<" ">>)
                           \o SerializeJSONProperty(kept[i].v, gap, inner)],
                      <<"}">>)

\* JSON.stringify(value)
JSONstringify(value) == SerializeJSONProperty(value, <<>>, <<>>)

\* JSON.stringify(value, null, 2)
JSONstringifyIndented(value) == SerializeJSONProperty(value, <<" ", " ">>, <<>>)

IsWhiteSpace(ch) == ch \in {" ", "\n", "\t", "\r"}

\* the first position from i on that holds no white space
RECURSIVE skipWhiteSpace(_, _)
skipWhiteSpace(text, i) ==
  IF i <= Len(text) /\ IsWhiteSpace(text[i]) THEN skipWhiteSpace(text, i + 1)
  ELSE i

\* str.trim()
RECURSIVE trimEnd(_)
trimEnd(str) ==
  IF Len(str) > 0 /\ IsWhiteSpace(str[Len(str)])
  THEN trimEnd(SubSeq(str, 1, Len(str) - 1))
  ELSE str

trim(str) == trimEnd(SubSeq(str, skipWhiteSpace(str, 1), Len(str)))

\* str.endsWith(ch), ch one character
endsWith(str, ch) == Len(str) > 0 /\ str[Len(str)] = ch

\* the result of a parsing step: the value read and the position behind it
Parsed(v, i) == [ok |-> TRUE, v |-> v, i |-> i]
SyntaxError == [ok |-> FALSE, v |-> VNull, i |-> 0]

IsDigit(ch) == \E d \in 1..Len(Digits) : Digits[d] = ch
DigitValue(ch) == (CHOOSE d \in 1..Len(Digits) : Digits[d] = ch) - 1

\* the digits from position i on, added to the number read so far
RECURSIVE parseDigits(_, _, _)
parseDigits(text, i, n) ==
  IF i <= Len(text) /\ IsDigit(text[i])
  THEN parseDigits(text, i + 1, 10 * n + DigitValue(text[i]))
  ELSE Parsed(VNum(n), i)

\* an integer literal: -? (0 | [1-9][0-9]*)
parseNumber(text, i) ==
  LET negative == text[i] = "-"
      first == IF negative THEN i + 1 ELSE i
  IN  IF first > Len(text) \/ ~IsDigit(text[first]) THEN SyntaxError
      ELSE LET digits == IF text[first] = "0" THEN Parsed(VNum(0), first + 1)
                         ELSE parseDigits(text, first, 0)
           IN  IF negative THEN Parsed(VNum(0 - digits.v.n), digits.i)
               ELSE digits

\* the characters of a string literal from position i on, up to its closing
\* quote; str holds the characters read so far
RECURSIVE parseChars(_, _, _)
parseChars(text, i, str) ==
  IF i > Len(text) \/ text[i] = "\n" THEN SyntaxError
  ELSE IF text[i] = "\"" THEN Parsed(VStr(str), i + 1)
  ELSE IF text[i] = "\\" THEN
    IF i + 1 > Len(text) THEN SyntaxError
    ELSE CASE text[i + 1] \in {"\"", "\\", "/"} ->
                parseChars(text, i + 2, Append(str, text[i + 1]))
           [] text[i + 1] = "n" -> parseChars(text, i + 2, Append(str, "\n"))
           [] text[i + 1] = "t" -> parseChars(text, i + 2, Append(str, "\t"))
           [] text[i + 1] = "r" -> parseChars(text, i + 2, Append(str, "\r"))
           [] OTHER -> SyntaxError
  ELSE parseChars(text, i + 1, Append(str, text[i]))

\* obj[key] = value on the entries of an object: an existing key keeps its place
setProperty(entries, key, value) ==
  IF \E i \in 1..Len(entries) : entries[i].k = key
  THEN [i \in 1..Len(entries) |->
          IF entries[i].k = key THEN Entry(key, value) ELSE entries[i]]
  ELSE Append(entries, Entry(key, value))

RECURSIVE parseValue(_, _)
RECURSIVE parseElements(_, _, _)
RECURSIVE parseMembers(_, _, _)

\* the elements of an array from position i on (behind "[" or ","), items
\* holding the elements read so far
parseElements(text, i, items) ==
  LET element == parseValue(text, i) IN
  IF ~element.ok THEN SyntaxError
  ELSE LET j == skipWhiteSpace(text, element.i) IN
       IF j > Len(text) THEN SyntaxError
       ELSE IF text[j] = "," THEN parseElements(text, j + 1, Append(items, element.v))
       ELSE IF text[j] = "]" THEN Parsed(VArr(Append(items, element.v)), j + 1)
       ELSE SyntaxError

\* the members of an object from position i on (behind "{" or ","), entries
\* holding the members read so far
parseMembers(text, i, entries) ==
  LET k == skipWhiteSpace(text, i) IN
  IF k > Len(text) \/ text[k] # "\"" THEN SyntaxError
  ELSE LET key == parseChars(text, k + 1, <<>>) IN
       IF ~key.ok THEN SyntaxError
       ELSE LET c == skipWhiteSpace(text, key.i) IN
            IF c > Len(text) \/ text[c] # ":" THEN SyntaxError
            ELSE LET member == parseValue(text, c + 1) IN
                 IF ~member.ok THEN SyntaxError
                 ELSE LET j == skipWhiteSpace(text, member.i)
                          read == setProperty(entries, key.v.s, member.v)
                      IN  IF j > Len(text) THEN SyntaxError
                          ELSE IF text[j] = "," THEN parseMembers(text, j + 1, read)
                          ELSE IF text[j] = "}" THEN Parsed(VObj(read), j + 1)
                          ELSE SyntaxError

\* one JSON value from position i on, leading white space skipped
parseValue(text, i) ==
  LET j == skipWhiteSpace(text, i)
      literal(word) == j + Len(word) - 1 <= Len(text)
                         /\ SubSeq(text, j, j + Len(word) - 1) = word
  IN  IF j > Len(text) THEN SyntaxError
      ELSE IF text[j] = "{" THEN
        LET k == skipWhiteSpace(text, j + 1) IN
        IF k <= Len(text) /\ text[k] = "}" THEN Parsed(VObj(<<>>), k + 1)
        ELSE parseMembers(text, j + 1, <<>>)
      ELSE IF text[j] = "[" THEN
        LET k == skipWhiteSpace(text, j + 1) IN
        IF k <= Len(text) /\ text[k] = "]" THEN Parsed(VArr(<<>>), k + 1)
        ELSE parseElements(text, j + 1, <<>>)
      ELSE IF text[j] = "\"" THEN parseChars(text, j + 1, <<>>)
      ELSE IF text[j] = "-" \/ IsDigit(text[j]) THEN parseNumber(text, j)
      ELSE IF literal(<<"t", "r", "u", "e">>) THEN Parsed(VBool(TRUE), j + 4)
      ELSE IF literal(<<"f", "a", "l", "s", "e">>) THEN Parsed(VBool(FALSE), j + 5)
      ELSE IF literal(<<"n", "u", "l", "l">>) THEN Parsed(VNull, j + 4)
      ELSE SyntaxError

\* JSON.parse(text): ok is false when it throws a SyntaxError
JSONparse(text) ==
  LET value == parseValue(text, 1) IN
  IF value.ok /\ skipWhiteSpace(text, value.i) > Len(text)
  THEN [ok |-> TRUE, v |-> value.v]
  ELSE [ok |-> FALSE, v |-> VNull]

(***************************************************************************)
(* _analyzeDataStructure and _selectOptimalStrategy                        *)
(***************************************************************************)
Max(a, b) == IF a >= b THEN a ELSE b

RECURSIVE analyze(_, _, _)
RECURSIVE analyzeItems(_, _, _, _)
RECURSIVE analyzeEntries(_, _, _, _)

\* node.forEach((item, index) => analyze(item, depth + 1, ...)), from item i on
analyzeItems(items, i, depth, analysis) ==
  IF i > Len(items) THEN analysis
  ELSE analyzeItems(items, i + 1, depth, analyze(items[i], depth + 1, analysis))

\* Object.entries(node).forEach(([key, value]) => analyze(value, depth + 1, ...))
analyzeEntries(entries, i, depth, analysis) ==
  IF i > Len(entries) THEN analysis
  ELSE analyzeEntries(entries, i + 1, depth,
                      analyze(entries[i].v, depth + 1, analysis))

\* const analyze = (node, depth = 0, path = '') => ...
analyze(nd, depth, analysis) ==
  LET a == [analysis EXCEPT !.depth = Max(analysis.depth, depth)] IN
  IF nd.t = "string" THEN [a EXCEPT !.textLength = a.textLength + Len(nd.s)]
  ELSE IF IsArray(nd) THEN
    analyzeItems(nd.a, 1, depth,
      [a EXCEPT !.arrayCount = a.arrayCount + 1,
                !.hasUniformArrays =
                   a.hasUniformArrays \/ _isUniformObjectArray(nd) # VNull,
                !.hasPrimitiveArrays =
                   a.hasPrimitiveArrays \/ _isPrimitiveArray(nd)])
  ELSE IF IsPlainObject(nd) THEN
    analyzeEntries(nd.e, 1, depth,
      [a EXCEPT !.objectCount = a.objectCount + 1,
                !.hasNestedObjects = a.hasNestedObjects \/ depth > 0])
  ELSE a

_analyzeDataStructure(data, cfg) ==
  LET a == analyze(data, 0,
                   [type |-> "null", depth |-> 0, hasUniformArrays |-> FALSE,
                    hasPrimitiveArrays |-> FALSE, hasNestedObjects |-> FALSE,
                    textLength |-> 0, arrayCount |-> 0, objectCount |-> 0,
                    complexity |-> "simple"])
      complexity ==
        IF a.depth > 3 \/ a.arrayCount > 5 \/ a.objectCount > 10 THEN "complex"
        ELSE IF a.depth > 1 \/ a.arrayCount > 0 \/ a.objectCount > 3
        THEN "moderate"
        ELSE "simple"
      type ==
        IF data.t = "string"
        THEN (IF Len(data.s) > cfg.longTextThreshold THEN "longText" ELSE "text")
        ELSE IF data.t = "bytes" THEN "image"
        ELSE IF IsArray(data) THEN "array"
        ELSE IF IsPlainObject(data) THEN "object"
        ELSE "primitive"
  IN  [a EXCEPT !.complexity = complexity, !.type = type]

\* a strategy object; a property it does not have is "undefined"
Strategy(name, jsonMode, textMode, imageMode, score) ==
  [name |-> name, jsonMode |-> jsonMode, textMode |-> textMode,
   imageMode |-> imageMode, score |-> score]

\* strategies.reduce((best, current) => current.score > best.score ? current : best)
RECURSIVE reduceBest(_, _, _)
reduceBest(strategies, i, best) ==
  IF i > Len(strategies) THEN best
  ELSE reduceBest(strategies, i + 1,
                  IF strategies[i].score > best.score THEN strategies[i] ELSE best)

\* a variant of _selectOptimalStrategy: the ToYaml strategy scores 75
_selectOptimalStrategy_YamlPreferred(analysis, cfg) ==
  LET strategies ==
        (IF analysis.hasUniformArrays \/ analysis.hasPrimitiveArrays
         THEN <<Strategy("Flatten", "Flatten", "undefined", "undefined",
                         IF analysis.hasUniformArrays THEN 100 ELSE 80)>>
         ELSE <<>>)
        \o (IF analysis.hasNestedObjects \/ analysis.complexity = "moderate"
            THEN <<Strategy("Flatten", "Flatten", "undefined", "undefined", 70)>>
            ELSE <<>>)
        \o (IF analysis.complexity = "moderate" /\ ~analysis.hasUniformArrays
            THEN <<Strategy("ToYaml", "ToYaml", "undefined", "undefined", 75)>>
            ELSE <<>>)
        \o (IF analysis.type = "longText"
            THEN <<Strategy("TextOptimization", "undefined", cfg.textMode,
                            "undefined", 90)>>
            ELSE <<>>)
        \o (IF analysis.type = "image"
            THEN <<Strategy("ImageOptimization", "undefined", "undefined",
                            cfg.imageMode, 100)>>
            ELSE <<>>)
  IN  IF Len(strategies) = 0
      THEN Strategy("Flatten", "Flatten", "undefined", "undefined", 50)
      ELSE reduceBest(strategies, 2, strategies[1])

_selectOptimalStrategy(analysis, cfg) ==
  LET strategies ==
        (IF analysis.hasUniformArrays \/ analysis.hasPrimitiveArrays
         THEN <<Strategy("Flatten", "Flatten", "undefined", "undefined",
                         IF analysis.hasUniformArrays THEN 100 ELSE 80)>>
         ELSE <<>>)
        \o (IF analysis.hasNestedObjects \/ analysis.complexity = "moderate"
            THEN <<Strategy("Flatten", "Flatten", "undefined", "undefined", 70)>>
            ELSE <<>>)
        \o (IF analysis.complexity = "moderate" /\ ~analysis.hasUniformArrays
            THEN <<Strategy("ToYaml", "ToYaml", "undefined", "undefined", 60)>>
            ELSE <<>>)
        \o (IF analysis.type = "longText"
            THEN <<Strategy("TextOptimization", "undefined", cfg.textMode,
                            "undefined", 90)>>
            ELSE <<>>)
        \o (IF analysis.type = "image"
            THEN <<Strategy("ImageOptimization", "undefined", "undefined",
                            cfg.imageMode, 100)>>
            ELSE <<>>)
  IN  IF Len(strategies) = 0
      THEN Strategy("Flatten", "Flatten", "undefined", "undefined", 50)
      ELSE reduceBest(strategies, 2, strategies[1])

\* left || right for two mode names
OrElse(left, right) == IF left = "undefined" THEN right ELSE left

(***************************************************************************)
(* The default optimizers                                                  *)
(***************************************************************************)
\* the characters of a mode name
ModeText(mode) ==
  CASE mode = "None" -> <<"N", "o", "n", "e">>
    [] mode = "Clean" -> <<"C", "l", "e", "a", "n">>
    [] mode = "SummarizeFast" ->
         <<"S", "u", "m", "m", "a", "r", "i", "z", "e", "F", "a", "s", "t">>
    [] mode = "SummarizeHighQuality" ->
         <<"S", "u", "m", "m", "a", "r", "i", "z", "e", "H", "i", "g", "h",
           "Q", "u", "a", "l", "i", "t", "y">>

\* longText.substring(0, 150)
StubSummaryLength == 150

textStubOpening ==
  <<" ", "S", "t", "u", "b", ":", " ", "S", "u", "m", "m", "a", "r", "y",
    " ", "o", "f", " ", "t", "e", "x", "t", " ", "f", "o", "l", "l", "o",
    "w", "s", ".", ".", ".", "]", "\n">>

textStubClosing ==
  <<".", ".", ".", "\n", "[", "E", "n", "d", " ", "o", "f", " ", "s",
    "u", "m", "m", "a", "r", "y", "]">>

_defaultTextOptimizer(longText, cfg) ==
  <<"[">> \o ModeText(cfg.textMode) \o textStubOpening
    \o substring(longText, 0, IF Len(longText) < StubSummaryLength
                              THEN Len(longText) ELSE StubSummaryLength)
    \o textStubClosing

imageStubOpening ==
  <<"[", "O", "C", "R", " ", "S", "t", "u", "b", ":", " ", "E", "x", "t",
    "r", "a", "c", "t", "e", "d", " ", "t", "e", "x", "t", " ", "f", "r",
    "o", "m", " ", "i", "m", "a", "g", "e", " ", "(">>

imageStubClosing ==
  <<" ", "b", "y", "t", "e", "s", ")", "]", "\n", "S", "a", "m", "p",
    "l", "e", " ", "O", "C", "R", " ", "T", "e", "x", "t", ":", " ", "I",
    "N", "V", "O", "I", "C", "E", " ", "#", "1", "2", "3", "4", "\n",
    "T", "o", "t", "a", "l", ":", " ", "$", "4", "9", "9", ".", "9", "9",
    "\n", "[", "E", "n", "d", " ", "o", "f", " ", "e", "x", "t", "r",
    "a", "c", "t", "e", "d", " ", "t", "e", "x", "t", "]">>

\* imageData.byteLength (or .length) is the size of the image data
_defaultImageOptimizer(imageData) ==
  imageStubOpening \o NumberToString(imageData.n) \o imageStubClosing

(***************************************************************************)
(* optimize and brevity, up to their first await                           *)
(***************************************************************************)
\* variant: the brackets are looked for in rawData itself, not in trimmed
looksLikeJSON_NoTrim(str) ==
  \/ startsWith(str, <<"{">>) /\ endsWith(str, "}")
  \/ startsWith(str, <<"[">>) /\ endsWith(str, "]")

\* (trimmed.startsWith('{') && trimmed.endsWith('}')) ||
\* (trimmed.startsWith('[') && trimmed.endsWith(']'))
looksLikeJSON(str) ==
  LET trimmed == trim(str)
  IN  \/ startsWith(trimmed, <<"{">>) /\ endsWith(trimmed, "}")
      \/ startsWith(trimmed, <<"[">>) /\ endsWith(trimmed, "]")

\* !value
IsFalsy(v) ==
  \/ v.t \in {"null", "undefined"}
  \/ v.t = "boolean" /\ ~v.b
  \/ v.t = "number" /\ v.n = 0
  \/ v.t = "string" /\ v.s = <<>>

\* rawData instanceof ArrayBuffer || rawData instanceof Uint8Array || Buffer
IsImageData(v) == v.t = "bytes"

\* how the synchronous part of a call ends: it returns value, throws, or awaits
\* the promise of the text or image optimizer, which will be fulfilled with value
Outcome(kind, value) == [kind |-> kind, value |-> value]

\* return this._flattenObject(inputObject), f being what _flattenObject did
returnOrThrow(f) ==
  IF f.threw THEN Outcome("throw", <<>>) ELSE Outcome("return", f.result)

\* switch (this._config.jsonMode)
applyJsonMode(inputObject, cfg) ==
  IF cfg.jsonMode = "Flatten"
  THEN returnOrThrow(_flattenObject(inputObject, cfg))
  ELSE IF cfg.jsonMode = "ToYaml"
  THEN Outcome("return", JSONstringifyIndented(inputObject))
  ELSE IF cfg.jsonMode = "Filter"
  THEN Outcome("return", JSONstringify(inputObject))
  ELSE Outcome("return", JSONstringify(inputObject))

\* variant: a text as long as the threshold counts as long
isLongText_AtLeast(text, cfg) == Len(text) >= cfg.longTextThreshold

\* rawData.length > this._config.longTextThreshold
isLongText(text, cfg) == Len(text) > cfg.longTextThreshold

\* try { ... inputObject = JSON.parse(rawData) } catch (e) { }: the value
\* inputObject holds afterwards, null when the text was not parsed
parsedOrNull(text) ==
  IF looksLikeJSON(text) /\ JSONparse(text).ok THEN JSONparse(text).v ELSE VNull

\* optimize for a string rawData, from "if (!inputObject)" on
optimizeString(text, inputObject, cfg) ==
  IF IsFalsy(inputObject)
  THEN IF isLongText(text, cfg)
       THEN Outcome("text", _defaultTextOptimizer(text, cfg))
       ELSE Outcome("return", text)
  ELSE applyJsonMode(inputObject, cfg)

\* optimize(rawData) under this._config = cfg
optimize(rawData, cfg) ==
  IF rawData.t = "string"
  THEN optimizeString(rawData.s, parsedOrNull(rawData.s), cfg)
  ELSE IF IsImageData(rawData)
  THEN Outcome("image", _defaultImageOptimizer(rawData))
  ELSE IF IsNonNullObject(rawData) THEN applyJsonMode(rawData, cfg)
  ELSE Outcome("return", String(rawData))

\* the plain-text branch of brevity (the same code in the try and in the catch)
brevityText(text, cfg) ==
  IF _selectOptimalStrategy(_analyzeDataStructure(VStr(text), cfg), cfg).name
       = "TextOptimization"
  THEN Outcome("text", _defaultTextOptimizer(text, cfg))
  ELSE Outcome("return", text)

\* brevity(rawData) down to "Analyze the data structure": either the call ends
\* as in outcome, or it goes on with inputObject (entered is true)
brevity(rawData, cfg) ==
  LET ends(outcome) ==
        [entered |-> FALSE, outcome |-> outcome, inputObject |-> VNull]
      enters(inputObject) ==
        [entered |-> TRUE, outcome |-> Outcome("return", <<>>),
         inputObject |-> inputObject]
  IN  IF rawData.t = "string" THEN
        IF looksLikeJSON(rawData.s) /\ JSONparse(rawData.s).ok
        THEN enters(JSONparse(rawData.s).v)
        ELSE ends(brevityText(rawData.s, cfg))
      ELSE IF IsImageData(rawData)
      THEN ends(Outcome("image", _defaultImageOptimizer(rawData)))
      ELSE IF IsNonNullObject(rawData) THEN enters(rawData)
      ELSE ends(Outcome("return", String(rawData)))

\* new BrevitConfig({...this._config, jsonMode: strategy.jsonMode || ..., ...})
overridden(cfg, strategy) ==
  [cfg EXCEPT !.jsonMode = OrElse(strategy.jsonMode, cfg.jsonMode),
              !.textMode = OrElse(strategy.textMode, cfg.textMode),
              !.imageMode = OrElse(strategy.imageMode, cfg.imageMode)]

\* the tempConfig brevity builds for inputObject under this._config = cfg
tempConfigOf(inputObject, cfg) ==
  overridden(cfg,
             _selectOptimalStrategy(_analyzeDataStructure(inputObject, cfg), cfg))

(***************************************************************************)
(* Bounds and inputs                                                       *)
(***************************************************************************)
MaxFields == 3       \* leaf fields under one key of a generated document
MaxThreshold == 3    \* abbreviationThreshold ranges over 1..MaxThreshold
MaxArrayLen == 3     \* length of the arrays handed to _flatten
MaxKeys == 2         \* keys of the objects handed to _flatten
MaxCounter == 27     \* abbrCounter ranges over 0..MaxCounter

kCustomer == <<"c", "u", "s", "t", "o", "m", "e", "r">>
kBilling == <<"b", "i", "l", "l", "i", "n", "g">>
kBooking == <<"b", "o", "o", "k", "i", "n", "g">>
kInfo == <<"i", "n", "f", "o">>
kItems == <<"i", "t", "e", "m", "s">>
kFriends == <<"f", "r", "i", "e", "n", "d", "s">>
kUser == <<"u", "s", "e", "r">>
kName == <<"n", "a", "m", "e">>
kEmail == <<"e", "m", "a", "i", "l">>
kSku == <<"s", "k", "u">>
kQty == <<"q", "t", "y">>

sA88 == VStr(<<"A", "-", "8", "8">>)
sT22 == VStr(<<"T", "-", "2", "2">>)
sX == VStr(<<"x">>)
sComma == VStr(<<"a", ",", "b">>)
sQuote == VStr(<<"s", "\"", "q">>)
sNewline == VStr(<<"a", "\n", "b">>)

\* {f1: 1, ..., fn: n}
Fields(n) ==
  VObj([i \in 1..n |-> Entry(<<"f">> \o NumberToString(i), VNum(i))])

\* the n fields directly, or below one more key
Group(mid, n) == IF mid = "none" THEN Fields(n) ELSE VObj(<<Entry(kInfo, Fields(n))>>)

TopKeys == {kCustomer, kBilling, kBooking}
Mids == {"none", "info"}

GeneratedDocs ==
  {VObj(<<Entry(k1, Group(m1, n1))>>) :
     k1 \in TopKeys, m1 \in Mids, n1 \in 1..MaxFields}
  \cup
  {VObj(<<Entry(ks[1], Group(m1, n1)), Entry(ks[2], Group(m2, n2))>>) :
     ks \in {p \in TopKeys \X TopKeys : p[1] # p[2]},
     m1 \in Mids, m2 \in Mids, n1 \in 1..MaxFields, n2 \in 1..MaxFields}

itemA == VObj(<<Entry(kSku, sA88), Entry(kQty, VNum(1))>>)
itemT == VObj(<<Entry(kSku, sT22), Entry(kQty, VNum(2))>>)
itemTReordered == VObj(<<Entry(kQty, VNum(2)), Entry(kSku, sT22)>>)
itemSkuOnlyA == VObj(<<Entry(kSku, sA88)>>)
itemSkuOnlyT == VObj(<<Entry(kSku, sT22)>>)
itemQtyOnly == VObj(<<Entry(kQty, VNum(2))>>)
itemQuoted == VObj(<<Entry(kSku, sQuote), Entry(kQty, sComma)>>)

\* the examples of the documentation and some irregular documents
SampleDocs ==
  { \* {items: [{sku: "A-88", qty: 1}, {sku: "T-22", qty: 2}]}
    VObj(<<Entry(kItems, VArr(<<itemA, itemT>>))>>),
    \* {friends: ["ana", "luis", "sam"]}
    VObj(<<Entry(kFriends,
                 VArr(<<VStr(<<"a", "n", "a">>), VStr(<<"l", "u", "i", "s">>),
                        VStr(<<"s", "a", "m">>)>>))>>),
    \* {items: [{sku: "A-88"}, "x", {sku: "T-22"}]}
    VObj(<<Entry(kItems, VArr(<<itemSkuOnlyA, sX, itemSkuOnlyT>>))>>),
    \* {user: {name: "John", email: "j@x.com"}}
    VObj(<<Entry(kUser,
                 VObj(<<Entry(kName, VStr(<<"J", "o", "h", "n">>)),
                        Entry(kEmail,
                              VStr(<<"j", "@", "x", ".", "c", "o", "m">>))>>))>>),
    \* {customer: {name: "a,b", items: [{sku: "A-88"}, "x"], friends: ["x", null]}}
    VObj(<<Entry(kCustomer,
                 VObj(<<Entry(kName, sComma),
                        Entry(kItems, VArr(<<itemSkuOnlyA, sX>>)),
                        Entry(kFriends, VArr(<<sX, VNull>>))>>))>>),
    \* {customer: {items: [{sku: "A-88", qty: 1}, {qty: 2, sku: "T-22"}], f1: 1, f2: 2}}
    VObj(<<Entry(kCustomer,
                 VObj(<<Entry(kItems, VArr(<<itemA, itemTReordered>>)),
                        Entry(<<"f", "1">>, VNum(1)),
                        Entry(<<"f", "2">>, VNum(2))>>))>>),
    \* [{customer: {f1: 1, f2: 2, f3: 3}}, "x"]
    VArr(<<VObj(<<Entry(kCustomer, Fields(3))>>), sX>>),
    \* [{sku: "A-88", qty: 1}, {sku: "T-22", qty: 2}]
    VArr(<<itemA, itemT>>),
    \* {Customer: {f1: 1, f2: 2, f3: 3}, b: {f1: 1, f2: 2}}
    VObj(<<Entry(<<"C", "u", "s", "t", "o", "m", "e", "r">>, Fields(3)),
           Entry(<<"b">>, Fields(2))>>),
    \* {"": {f1: 1, f2: 2}, name: "s\"q"}
    VObj(<<Entry(<<>>, Fields(2)), Entry(kName, sQuote)>>),
    \* {".x": {f1: 1, f2: 2}}
    VObj(<<Entry(<<".", "x">>, Fields(2))>>),
    \* {qty: 1} and {qty: "1"}
    VObj(<<Entry(kQty, VNum(1))>>), VObj(<<Entry(kQty, VStr(<<"1">>))>>),
    \* {name: "x", run: () => 1}
    VObj(<<Entry(kName, sX),
           Entry(<<"r", "u", "n">>, VFunc(<<"(", ")", " ", "=", ">", " ", "1">>))>>),
    \* {user: {info: {name: {items: {f1: 1, f2: 2}}}}}
    VObj(<<Entry(kUser,
                 VObj(<<Entry(kInfo,
                              VObj(<<Entry(kName,
                                           VObj(<<Entry(kItems, Fields(2))>>))>>))>>))>>),
    \* {}, [], "x", null
    VObj(<<>>), VArr(<<>>), sX, VNull }

Inputs == GeneratedDocs \cup SampleDocs

Configs ==
  [enableAbbreviations : BOOLEAN, abbreviationThreshold : 1..MaxThreshold]

\* the elements of the arrays, and the values of the objects, handed to _flatten
EmitElems ==
  {sX, sComma, sNewline, VNum(7), VNull, itemA, itemTReordered, itemSkuOnlyT,
   itemQtyOnly, VObj(<<>>), VArr(<<VNum(1), VNull>>)}

EmitArrays == {VArr(a) : a \in UNION {[1..n -> EmitElems] : n \in 0..MaxArrayLen}}

EmitKeys == {<<"a">>, kSku, <<>>}

EmitValues ==
  {sX, sQuote, VBool(TRUE), VUndefined, VObj(<<Entry(kQty, VNum(2))>>), VObj(<<>>),
   VArr(<<itemA, itemTReordered>>), VArr(<<sX, sQuote>>),
   VArr(<<itemQuoted, itemTReordered>>)}

EmitObjectsOfSize(n) ==
  {VObj([i \in 1..n |-> Entry(ks[i], vs[i])]) :
     ks \in {f \in [1..n -> EmitKeys] : \A i, j \in 1..n : i # j => f[i] # f[j]},
     vs \in [1..n -> EmitValues]}

EmitObjects == UNION {EmitObjectsOfSize(n) : n \in 0..MaxKeys}

EmitNodes == EmitArrays \cup EmitValues

EmitPrefixes == {<<>>, kItems, <<"a", ".", "b", "[", "1", "]">>}

MaxCalls == 2               \* calls made on one client
MaxLongTextThreshold == 3   \* the largest longTextThreshold of a client

\* {user: {name: "John", email: "j@x.com"}}
docUser ==
  VObj(<<Entry(kUser,
               VObj(<<Entry(kName, VStr(<<"J", "o", "h", "n">>)),
                      Entry(kEmail,
                            VStr(<<"j", "@", "x", ".", "c", "o", "m">>))>>))>>)

\* {customer: {f1: 1, f2: 2, f3: 3}}
docCustomer == VObj(<<Entry(kCustomer, Fields(3))>>)

\* {name: "s\"q", qty: 0}
docFlat == VObj(<<Entry(kName, sQuote), Entry(kQty, VNum(0))>>)

\* the parsed values behind the JSON texts handed to the client
ClientDocs ==
  {docUser, docFlat, VArr(<<VNum(-1), VNull, VBool(TRUE)>>), VObj(<<>>),
   VArr(<<>>)}

\* a JSON text written by hand: white space, an escape and a repeated key
textRepeatedKey ==
  <<" ", "{", " ", "\"", "a", "\"", " ", ":", " ", "\"", "x", "\\", "\"",
    "y", "\"", ",", " ", "\"", "b", "\"", ":", " ", "[", "1", ",", " ",
    "-", "2", "]", ",", " ", "\"", "a", "\"", ":", " ", "n", "u", "l",
    "l", " ", "}", "\n">>

\* texts that are not JSON: plain, and in braces or brackets but malformed
PlainTexts ==
  {<<>>, <<"h", "i">>, <<"a", "b", "c">>, <<"t", "e", "x", "t">>,
   <<"{", "a", "b", "c", "}">>}

\* the JSON texts: compact, indented, and padded with white space
JsonTexts ==
  {JSONstringify(d) : d \in ClientDocs}
  \cup {JSONstringifyIndented(d) : d \in {docFlat}}
  \cup {<<" ", "\n">> \o JSONstringify(docCustomer) \o <<"\n">>}
  \cup {textRepeatedKey}

\* what the first call on a client is handed
ClientInputs ==
  {docUser, docCustomer, VArr(<<itemA, itemT>>)}
  \cup {VStr(text) : text \in JsonTexts \cup PlainTexts}
  \cup {VNum(7), VBytes(3)}

\* what a call made after another one is handed: one input of each kind
LaterInputs ==
  {docUser, VStr(JSONstringify(docFlat)), VStr(<<"h", "i">>),
   VStr(<<"t", "e", "x", "t">>)}

\* the inputs of the next call on a client that has had the calls made
InputsAfter(made) == IF made = <<>> THEN ClientInputs ELSE LaterInputs

ClientConfigs ==
  [jsonMode : {"None", "Flatten", "ToYaml", "Filter"},
   textMode : {"Clean"},
   imageMode : {"Ocr"},
   jsonPathsToKeep : {<<>>},
   longTextThreshold : (MaxLongTextThreshold - 1)..MaxLongTextThreshold,
   enableAbbreviations : {TRUE},
   abbreviationThreshold : {2}]

(***************************************************************************)
(* _flattenObject, statement by statement                                  *)
(***************************************************************************)
Init ==
  /\ config \in Configs
  /\ node \in Inputs
  /\ prefix = <<>>
  /\ pc = "start"
  /\ output = <<>>
  /\ paths = <<>>
  /\ abbreviationMap = <<>>
  /\ definitions = <<>>
  /\ abbreviatedOutput = <<>>
  /\ result = <<>>
  /\ history = <<>>
  /\ calls = <<>>
  /\ microtasks = <<>>
  /\ invoked = <<>>
  /\ heap = <<>>
  /\ stack = <<>>

\* const output = []; this._flatten(obj, '', output)
Flatten ==
  /\ pc = "start"
  /\ output' = _flatten(node, prefix, <<>>)
  /\ pc' = "flattened"
  /\ UNCHANGED <<config, node, prefix, paths, abbreviationMap, definitions,
                 abbreviatedOutput, result,
                 history, clientVars, walkVars>>

\* const paths = output.map(line => ...)
ExtractPaths ==
  /\ pc = "flattened"
  /\ paths' = [i \in 1..Len(output) |-> extractPath(output[i])]
  /\ pc' = "paths"
  /\ UNCHANGED <<config, node, prefix, output, abbreviationMap, definitions,
                 abbreviatedOutput, result,
                 history, clientVars, walkVars>>

\* a variant of GenerateAbbreviations: the aliases of the map left by the
\* previous call count as used, and the counter goes on from its size
GenerateAbbreviations_CarryOver ==
  /\ pc = "paths"
  /\ LET g == generateLoop(frequentPrefixesOf(paths, config), 1,
                           [map |-> <<>>, definitions |-> <<>>,
                            abbrCounter |-> Len(abbreviationMap),
                            usedAbbrs |-> {abbreviationMap[i].value :
                                             i \in 1..Len(abbreviationMap)},
                            threw |-> FALSE])
     IN  IF g.threw
         THEN /\ pc' = "threw"
              /\ UNCHANGED <<abbreviationMap, definitions>>
         ELSE /\ pc' = "generated"
              /\ abbreviationMap' = g.map
              /\ definitions' = g.definitions
  /\ UNCHANGED <<config, node, prefix, output, paths, abbreviatedOutput, result,
                 history, clientVars, walkVars>>

\* const { map: abbreviationMap, definitions } = this._generateAbbreviations(paths)
GenerateAbbreviations ==
  /\ pc = "paths"
  /\ LET g == _generateAbbreviations(paths, config)
     IN  IF g.threw
         THEN /\ pc' = "threw"
              /\ UNCHANGED <<abbreviationMap, definitions>>
         ELSE /\ pc' = "generated"
              /\ abbreviationMap' = g.map
              /\ definitions' = g.definitions
  /\ UNCHANGED <<config, node, prefix, output, paths, abbreviatedOutput, result,
                 history, clientVars, walkVars>>

\* const abbreviatedOutput = output.map(line => ...)
ApplyAbbreviations ==
  /\ pc = "generated"
  /\ abbreviatedOutput' =
       [i \in 1..Len(output) |-> abbreviateLine(output[i], abbreviationMap, config)]
  /\ pc' = "applied"
  /\ UNCHANGED <<config, node, prefix, output, paths, abbreviationMap,
                 definitions, result,
                 history, clientVars, walkVars>>

\* return definitions.join('\n') + '\n' + abbreviatedOutput.join('\n')
Combine ==
  /\ pc = "applied"
  /\ result' = combine(definitions, abbreviatedOutput)
  /\ pc' = "done"
  /\ UNCHANGED <<config, node, prefix, output, paths, abbreviationMap,
                 definitions, abbreviatedOutput,
                 history, clientVars, walkVars>>

Next ==
  \/ Flatten
  \/ ExtractPaths
  \/ GenerateAbbreviations
  \/ ApplyAbbreviations
  \/ Combine

Spec == Init /\ [][Next]_vars

(***************************************************************************)
(* Encode calls made one after the other on the same client                *)
(***************************************************************************)
MaxEncodes == 3   \* encode calls made in a row on one client

\* documents whose prefixes get first-letter, multi-letter and counter aliases,
\* and one whose encoding throws
SeqDocs ==
  {docCustomer,
   VObj(<<Entry(kCustomer, VObj(<<Entry(kInfo, Fields(3))>>))>>),
   VObj(<<Entry(kBilling, Fields(3)), Entry(kBooking, Fields(3))>>),
   VObj(<<Entry(<<".", "x">>, Fields(2))>>),
   docUser}

InitSeq ==
  /\ config \in Configs
  /\ node \in SeqDocs
  /\ prefix = <<>>
  /\ pc = "start"
  /\ output = <<>>
  /\ paths = <<>>
  /\ abbreviationMap = <<>>
  /\ definitions = <<>>
  /\ abbreviatedOutput = <<>>
  /\ result = <<>>
  /\ history = <<>>
  /\ calls = <<>>
  /\ microtasks = <<>>
  /\ invoked = <<>>
  /\ heap = <<>>
  /\ stack = <<>>

\* the call has returned or thrown, and _flattenObject is called again on the
\* same client with another value or the same; the locals of the finished
\* call are dead, and the new call assigns each of them before it reads it
NextCall ==
  /\ pc \in {"done", "threw"}
  /\ Len(history) < MaxEncodes - 1
  /\ history' = Append(history, [node |-> node, threw |-> pc = "threw",
                                 result |-> result])
  /\ node' \in SeqDocs
  /\ pc' = "start"
  /\ UNCHANGED <<config, prefix, output, paths, abbreviationMap, definitions,
                 abbreviatedOutput, result, clientVars, walkVars>>

NextSeq ==
  \/ Flatten
  \/ ExtractPaths
  \/ GenerateAbbreviations
  \/ ApplyAbbreviations
  \/ Combine
  \/ NextCall

SpecSeq == InitSeq /\ [][NextSeq]_vars

(***************************************************************************)
(* _flatten as a function of (node, prefix)                                *)
(***************************************************************************)
InitEmit ==
  /\ config = [enableAbbreviations |-> TRUE, abbreviationThreshold |-> 2]
  /\ node \in EmitNodes \cup EmitObjects
  /\ prefix \in EmitPrefixes
  /\ pc = "start"
  /\ output = <<>>
  /\ paths = <<>>
  /\ abbreviationMap = <<>>
  /\ definitions = <<>>
  /\ abbreviatedOutput = <<>>
  /\ result = <<>>
  /\ history = <<>>
  /\ calls = <<>>
  /\ microtasks = <<>>
  /\ invoked = <<>>
  /\ heap = <<>>
  /\ stack = <<>>

NextEmit == Flatten

SpecEmit == InitEmit /\ [][NextEmit]_vars

(***************************************************************************)
(* The calls made on one BrevitClient                                      *)
(***************************************************************************)
\* a call: entered is this._config when the call was made, originalConfig the
\* local of brevity, settles how the promise it awaits ends, result its value
Call(method, rawData, at, cfg, settles, value) ==
  [method |-> method, rawData |-> rawData, pc |-> at, entered |-> cfg,
   originalConfig |-> cfg, settles |-> settles, result |-> value]

\* the position of a call after the synchronous part that ended in outcome
Position(outcome) ==
  CASE outcome.kind = "return" -> "fulfilled"
    [] outcome.kind = "throw" -> "rejected"
    [] outcome.kind \in {"text", "image"} -> "awaitOptimizer"

Settlement(outcome) == IF outcome.kind = "throw" THEN "rejected" ELSE "fulfilled"

\* the call this._textOptimizer(rawData, intent), if the outcome made it
Invocation(rawData, outcome) ==
  IF outcome.kind = "text" THEN <<rawData.s>> ELSE <<>>

InitClient ==
  /\ config \in ClientConfigs
  /\ node = VNull
  /\ prefix = <<>>
  /\ pc = "client"
  /\ output = <<>>
  /\ paths = <<>>
  /\ abbreviationMap = <<>>
  /\ definitions = <<>>
  /\ abbreviatedOutput = <<>>
  /\ result = <<>>
  /\ history = <<>>
  /\ calls = <<>>
  /\ microtasks = <<>>
  /\ invoked = <<>>
  /\ heap = <<>>
  /\ stack = <<>>

\* the call has run to its return, its throw or its await of an optimizer
Ran(method, rawData, outcome) ==
  /\ calls' = Append(calls, Call(method, rawData, Position(outcome), config,
                                 Settlement(outcome), outcome.value))
  /\ invoked' = invoked \o Invocation(rawData, outcome)

\* client.optimize(rawData): runs to its return or to its await
OptimizeCall ==
  /\ pc = "client"
  /\ Len(calls) < MaxCalls
  /\ \E rawData \in InputsAfter(calls) :
       Ran("optimize", rawData, optimize(rawData, config))
  /\ UNCHANGED <<config, node, prefix, pc, output, paths, abbreviationMap,
                 definitions, abbreviatedOutput, result, history, microtasks,
                 walkVars>>

\* this._config = tempConfig; return await this.optimize(inputObject, intent):
\* inputObject is a plain object or an array, so optimize runs to its return
\* or throw, and the continuation of brevity is queued as a microtask
AwaitOptimize(rawData, tempConfig, outcome) ==
  /\ config' = tempConfig
  /\ calls' = Append(calls, Call("brevity", rawData, "awaitOptimize", config,
                                 Settlement(outcome), outcome.value))
  /\ microtasks' = Append(microtasks, Len(calls) + 1)
  /\ UNCHANGED invoked

\* brevity from "Analyze the data structure" on
Override(rawData, inputObject, tempConfig) ==
  AwaitOptimize(rawData, tempConfig, optimize(inputObject, tempConfig))

\* brevity after its first part b
BrevityRuns(rawData, b) ==
  IF b.entered
  THEN Override(rawData, b.inputObject, tempConfigOf(b.inputObject, config))
  ELSE /\ Ran("brevity", rawData, b.outcome)
       /\ UNCHANGED <<config, microtasks>>

\* client.brevity(rawData): runs to its return or to its await
BrevityCall ==
  /\ pc = "client"
  /\ Len(calls) < MaxCalls
  /\ \E rawData \in InputsAfter(calls) :
       BrevityRuns(rawData, brevity(rawData, config))
  /\ UNCHANGED <<node, prefix, pc, output, paths, abbreviationMap, definitions,
                 abbreviatedOutput, result, history, walkVars>>

\* the continuation of the brevity call at the head of the microtask queue:
\* finally { this._config = originalConfig }
ResumeBrevity ==
  /\ pc = "client"
  /\ microtasks # <<>>
  /\ LET c == Head(microtasks)
     IN  /\ config' = calls[c].originalConfig
         /\ calls' = [calls EXCEPT ![c].pc = calls[c].settles]
  /\ microtasks' = Tail(microtasks)
  /\ UNCHANGED <<node, prefix, pc, output, paths, abbreviationMap, definitions,
                 abbreviatedOutput, result, history, invoked, walkVars>>

\* the promise of a text or image optimizer is fulfilled, and the call that
\* awaits it returns its value
OptimizerSettles ==
  /\ pc = "client"
  /\ \E c \in 1..Len(calls) :
       /\ calls[c].pc = "awaitOptimizer"
       /\ calls' = [calls EXCEPT ![c].pc = "fulfilled"]
  /\ UNCHANGED <<config, node, prefix, pc, output, paths, abbreviationMap,
                 definitions, abbreviatedOutput, result, history, microtasks,
                 invoked, walkVars>>

NextClient ==
  \/ OptimizeCall
  \/ BrevityCall
  \/ ResumeBrevity
  \/ OptimizerSettles

SpecClient == InitClient /\ [][NextClient]_vars

(***************************************************************************)
(* _flatten on a value graph: objects and arrays are held by reference     *)
(***************************************************************************)
MaxStack == 6   \* the invocations of _flatten the engine's call stack holds

\* a reference to cell r of the heap; a cell is an object or an array whose
\* values are scalars or references
VRef(r) == [t |-> "ref", r |-> r]

\* the value a reference stands for
Deref(h, v) == IF v.t = "ref" THEN h[v.r] ELSE v

\* String(array) is array.join(','): an array that is being joined already
\* contributes the empty string, an object "[object Object]"
RECURSIVE JoinView(_, _, _)
JoinView(h, v, joining) ==
  IF v.t # "ref" THEN v
  ELSE IF h[v.r].t = "object" THEN VObj(<<>>)
  ELSE IF v.r \in joining THEN VStr(<<>>)
  ELSE VArr([i \in 1..Len(h[v.r].a) |->
               JoinView(h, h[v.r].a[i], joining \cup {v.r})])

\* a tree with the text String(v) has
Printable(h, v) == JoinView(h, v, {})

\* an element of an array as the classification and the formatters read it:
\* its type, its keys and the text of its values
ItemView(h, v) ==
  IF v.t = "ref" /\ h[v.r].t = "object"
  THEN VObj([i \in 1..Len(h[v.r].e) |->
               Entry(h[v.r].e[i].k, Printable(h, h[v.r].e[i].v))])
  ELSE Printable(h, v)

\* the array behind reference v as _isUniformObjectArray, _isPrimitiveArray,
\* _formatTabularArray and _formatPrimitiveArray read it
ArrayView(h, v) == VArr([i \in 1..Len(h[v.r].a) |-> ItemView(h, h[v.r].a[i])])

\* the branch _flatten takes on value v
branchOf(h, v) ==
  IF Deref(h, v).t = "object" THEN "object"
  ELSE IF Deref(h, v).t = "array"
  THEN IF _isUniformObjectArray(ArrayView(h, v)) # VNull THEN "tabular"
       ELSE IF _isPrimitiveArray(ArrayView(h, v)) THEN "primitive"
       ELSE "mixed"
  ELSE "scalar"

\* the number of recursive calls _flatten makes for cell
childCount(cell) == IF cell.t = "object" THEN Len(cell.e) ELSE Len(cell.a)

\* the invocation _flatten(value, newPrefix, output) for child i of cell
childFrame(cell, pfx, i) ==
  IF cell.t = "object"
  THEN [v |-> cell.e[i].v, pfx |-> fieldPrefix(pfx, cell.e[i].k), i |-> 1]
  ELSE [v |-> cell.a[i], pfx |-> indexPrefix(pfx, i - 1), i |-> 1]

\* the entry _flatten pushes for a value it does not recurse into
entryOf(h, v, pfx, branch) ==
  IF branch = "tabular" THEN _formatTabularArray(ArrayView(h, v), pfx)
  ELSE IF branch = "primitive" THEN _formatPrimitiveArray(ArrayView(h, v), pfx)
  ELSE scalarLine(v, pfx)

\* value graphs: cells that refer to themselves, to each other, to a shared
\* cell, and plain trees
Heaps ==
  { \* o1 = {name: "x", self: o1}
    << VObj(<<Entry(kName, sX), Entry(<<"s", "e", "l", "f">>, VRef(1))>>) >>,
    \* o1 = {info: o2}, o2 = {f1: 1, user: o1}
    << VObj(<<Entry(kInfo, VRef(2))>>),
       VObj(<<Entry(<<"f", "1">>, VNum(1)), Entry(kUser, VRef(1))>>) >>,
    \* a1 = [a1, "x"]
    << VArr(<<VRef(1), sX>>) >>,
    \* o1 = {billing: o2, booking: o2}, o2 = {f1: 1}
    << VObj(<<Entry(kBilling, VRef(2)), Entry(kBooking, VRef(2))>>),
       VObj(<<Entry(<<"f", "1">>, VNum(1))>>) >>,
    \* o1 = {items: a2, name: "x"}, a2 = [o3, o4], o3 = {sku: "A-88", user: o1},
    \* o4 = {sku: "T-22", user: o1}
    << VObj(<<Entry(kItems, VRef(2)), Entry(kName, sX)>>),
       VArr(<<VRef(3), VRef(4)>>),
       VObj(<<Entry(kSku, sA88), Entry(kUser, VRef(1))>>),
       VObj(<<Entry(kSku, sT22), Entry(kUser, VRef(1))>>) >>,
    \* o1 = {customer: o2}, o2 = {friends: a3, items: a4}, a3 = ["x", null],
    \* a4 = [o5, 7, a3], o5 = {qty: 1}
    << VObj(<<Entry(kCustomer, VRef(2))>>),
       VObj(<<Entry(kFriends, VRef(3)), Entry(kItems, VRef(4))>>),
       VArr(<<sX, VNull>>),
       VArr(<<VRef(5), VNum(7), VRef(3)>>),
       VObj(<<Entry(kQty, VNum(1))>>) >> }

InitWalk ==
  /\ config = [enableAbbreviations |-> TRUE, abbreviationThreshold |-> 2]
  /\ heap \in Heaps
  /\ node \in {VRef(r) : r \in 1..Len(heap)}
  /\ prefix = <<>>
  /\ pc = "walk"
  /\ output = <<>>
  /\ stack = <<[v |-> node, pfx |-> prefix, i |-> 1]>>
  /\ paths = <<>>
  /\ abbreviationMap = <<>>
  /\ definitions = <<>>
  /\ abbreviatedOutput = <<>>
  /\ result = <<>>
  /\ history = <<>>
  /\ calls = <<>>
  /\ microtasks = <<>>
  /\ invoked = <<>>

\* the innermost invocation
Top == stack[Len(stack)]

\* the innermost invocation is in a forEach and has a child left to visit
Recursing ==
  /\ pc = "walk"
  /\ branchOf(heap, Top.v) \in {"object", "mixed"}
  /\ Top.i <= childCount(Deref(heap, Top.v))

\* the innermost invocation returns
popFrame ==
  /\ stack' = SubSeq(stack, 1, Len(stack) - 1)
  /\ pc' = IF Len(stack) = 1 THEN "flattened" ELSE "walk"

\* this._flatten(value, newPrefix, output) for the next child
Descend ==
  /\ Recursing
  /\ Len(stack) < MaxStack
  /\ stack' = Append([stack EXCEPT ![Len(stack)].i = Top.i + 1],
                     childFrame(Deref(heap, Top.v), Top.pfx, Top.i))
  /\ UNCHANGED <<config, node, prefix, pc, output, paths, abbreviationMap,
                 definitions, abbreviatedOutput, result, history, clientVars,
                 heap>>

\* the same call when the call stack is full: the engine throws a RangeError
\* (Maximum call stack size exceeded)
Overflow ==
  /\ Recursing
  /\ Len(stack) = MaxStack
  /\ pc' = "threw"
  /\ UNCHANGED <<config, node, prefix, output, paths, abbreviationMap,
                 definitions, abbreviatedOutput, result, history, clientVars,
                 walkVars>>

\* output.push(...) for a scalar, a uniform array or a primitive array
Emit ==
  /\ pc = "walk"
  /\ branchOf(heap, Top.v) \in {"scalar", "tabular", "primitive"}
  /\ output' = Append(output, entryOf(heap, Top.v, Top.pfx,
                                      branchOf(heap, Top.v)))
  /\ popFrame
  /\ UNCHANGED <<config, node, prefix, paths, abbreviationMap, definitions,
                 abbreviatedOutput, result, history, clientVars, heap>>

\* the forEach of an object or of a mixed array is over
Return ==
  /\ pc = "walk"
  /\ branchOf(heap, Top.v) \in {"object", "mixed"}
  /\ Top.i > childCount(Deref(heap, Top.v))
  /\ popFrame
  /\ UNCHANGED <<config, node, prefix, output, paths, abbreviationMap,
                 definitions, abbreviatedOutput, result, history, clientVars,
                 heap>>

NextWalk ==
  \/ Descend
  \/ Overflow
  \/ Emit
  \/ Return

SpecWalk == InitWalk /\ [][NextWalk]_vars

(***************************************************************************)
(* Vocabulary of the properties, read off the produced text                *)
(***************************************************************************)
\* the part of str before its first ch; all of str when ch does not occur
Before(str, ch) ==
  IF \E i \in 1..Len(str) : str[i] = ch
  THEN SubSeq(str, 1, (CHOOSE i \in 1..Len(str) :
                         str[i] = ch /\ \A j \in 1..(i - 1) : str[j] # ch) - 1)
  ELSE str

\* the part of str from its first ch on; empty when ch does not occur
FromFirst(str, ch) == SubSeq(str, Len(Before(str, ch)) + 1, Len(str))

\* p followed by a dot starts path
IsStrictDottedPrefix(p, path) ==
  Len(path) > Len(p) /\ SubSeq(path, 1, Len(p) + 1) = p \o <<".">>

\* every strict dotted prefix of path
DottedPrefixes(path) ==
  {SubSeq(path, 1, k - 1) : k \in {i \in 1..Len(path) : path[i] = "."}}

\* the alias and the prefix declared by a definition line "@alias=prefix"
DefAlias(def) == SubSeq(Before(def, "="), 2, Len(Before(def, "=")))
DefPrefix(def) == SubSeq(def, Len(Before(def, "=")) + 2, Len(def))

\* the path of a line cut at its first bracket
TruncatedPath(line) == Before(Before(line, ":"), "[")

\* the path of a line cut at its first bracket, unless the line starts with it
CountedPath(line) ==
  LET p == Before(line, ":")
  IN  IF p # <<>> /\ p[1] = "[" THEN p ELSE Before(p, "[")

CountTruncated(p) ==
  Cardinality({i \in 1..Len(output) :
                 IsStrictDottedPrefix(p, TruncatedPath(output[i]))})

CountCounted(p) ==
  Cardinality({i \in 1..Len(output) :
                 IsStrictDottedPrefix(p, CountedPath(output[i]))})

NetBeneficial(p, alias, count) ==
  (Len(p) - Len(alias) - 1) * count > Len(p) + Len(alias) + 3

Generated == pc \in {"generated", "applied", "done"}

RECURSIVE SumOver(_, _)
SumOver(f, S) ==
  IF S = {} THEN 0
  ELSE LET x == CHOOSE y \in S : TRUE IN f[x] + SumOver(f, S \ {x})

RECURSIVE Concat(_)
Concat(seqs) == IF seqs = <<>> THEN <<>> ELSE Head(seqs) \o Concat(Tail(seqs))

RewrittenWith(i) ==
  {j \in 1..Len(output) :
     /\ abbreviatedOutput[j] # output[j]
     /\ startsWith(abbreviatedOutput[j],
                   <<"@">> \o DefAlias(definitions[i]) \o <<".">>)
     /\ startsWith(output[j], DefPrefix(definitions[i]) \o <<".">>)}

\* C2: for every alias with a definition line, the characters saved over the
\* lines actually rewritten with it exceed the length of its definition line
\* (so every defined alias is used by at least one line).
C2_ActualSavings ==
  pc = "done" =>
    \A i \in 1..Len(definitions) :
      SumOver([j \in 1..Len(output) |->
                 Len(output[j]) - Len(abbreviatedOutput[j])],
              RewrittenWith(i))
        > Len(definitions[i]) + 1

(***************************************************************************)
(* C3                                                                      *)
(***************************************************************************)
\* C3: the aliases declared by the definition lines of one call are pairwise
\* distinct.
C3_AliasesDistinct ==
  Generated =>
    \A i, j \in 1..Len(definitions) :
      i # j => DefAlias(definitions[i]) # DefAlias(definitions[j])

(***************************************************************************)
(* C4 - C7: the emitter, on any node and prefix                            *)
(***************************************************************************)
KeySet(obj) == {obj.e[i].k : i \in 1..Len(obj.e)}

\* the value stored under key in obj (obj has the key)
ValueAt(obj, key) == (CHOOSE en \in Range(obj.e) : en.k = key).v

\* non-empty, every element a plain object with the first element's key set
UniformShape(v) ==
  /\ v.t = "array"
  /\ Len(v.a) > 0
  /\ \A i \in 1..Len(v.a) :
       v.a[i].t = "object" /\ KeySet(v.a[i]) = KeySet(v.a[1])

IsScalar(v) == v.t \in {"string", "number", "boolean", "null"}

\* non-empty, every element a string, number, boolean or null
PrimitiveShape(v) ==
  v.t = "array" /\ Len(v.a) > 0 /\ \A i \in 1..Len(v.a) : IsScalar(v.a[i])

\* a cell or array value: the escaped text of the value
Cell(v) == _escapeValue(v)

\* the label of a line: its path, or "value" for the empty path
Label(path) == IF path = <<>> THEN <<"v", "a", "l", "u", "e">> ELSE path

\* the path of child key below path
ChildPath(path, key) == IF path = <<>> THEN key ELSE path \o <<".">> \o key

\* the path of element i (counted from 0) below path
ElementPath(path, i) == path \o <<"[">> \o NumberToString(i) \o <<"]">>

Called == pc = "flattened"

C8_Frame ==
  pc = "done" =>
    /\ result = join(definitions \o abbreviatedOutput, <<"\n">>)
    /\ (result # <<>> => result[Len(result)] # "\n")
    /\ Len(abbreviatedOutput) = Len(output)
    /\ \A i \in 1..Len(output) :
         FromFirst(abbreviatedOutput[i], ":") = FromFirst(output[i], ":")

\* definitions were written, a path was rewritten, and a tabular entry with
\* its rows is among the data lines
C8_Witness ==
  /\ pc = "done"
  /\ definitions # <<>>
  /\ \E i \in 1..Len(output) : abbreviatedOutput[i] # output[i]
  /\ \E i \in 1..Len(output) : includes(output[i], "\n")

\* the candidate prefixes of the emitted lines
Candidates == UNION {DottedPrefixes(CountedPath(output[i])) : i \in 1..Len(output)}

\* C9: no prefix that occurs fewer than abbreviationThreshold times gets a
\* definition line; when every candidate is below the threshold there is no
\* definition line and no path is rewritten.
C9_Threshold ==
  pc = "done" =>
    /\ \A i \in 1..Len(definitions) :
         CountCounted(DefPrefix(definitions[i])) >= config.abbreviationThreshold
    /\ (\A p \in Candidates : CountCounted(p) < config.abbreviationThreshold) =>
         /\ definitions = <<>>
         /\ abbreviatedOutput = output
         /\ result = join(output, <<"\n">>)

\* abbreviations are enabled and every candidate is below the threshold,
\* among them one that would pay off even with a two-letter alias
C9_Witness ==
  /\ pc = "done"
  /\ config.enableAbbreviations
  /\ definitions = <<>>
  /\ \A p \in Candidates : CountCounted(p) < config.abbreviationThreshold
  /\ \E p \in Candidates :
       (Len(p) - 3) * CountCounted(p) > Len(p) + 5

\* C10: with enableAbbreviations = false the output has no definition line and
\* no rewritten path: it is the emitted lines joined by newlines.
C10_Disabled ==
  (pc = "done" /\ ~config.enableAbbreviations) =>
    /\ definitions = <<>>
    /\ abbreviatedOutput = output
    /\ result = join(output, <<"\n">>)

\* abbreviations are disabled on a document that has a frequent prefix which
\* would pay off
C10_Witness ==
  /\ pc = "done"
  /\ ~config.enableAbbreviations
  /\ \E p \in Candidates :
       /\ CountCounted(p) >= config.abbreviationThreshold
       /\ (Len(p) - 2) * CountCounted(p) > Len(p) + 4

(***************************************************************************)
(* C11: the configuration of the client                                    *)
(***************************************************************************)
\* every call made on the client has returned or thrown
Settled(c) == calls[c].pc \in {"fulfilled", "rejected"}

AllSettled == \A c \in 1..Len(calls) : Settled(c)

\* C11: once every call made on the client has completed, whatever the
\* interleaving of the brevity() calls, this._config is the configuration the
\* client had before the calls; the per-call override does not survive.
C11_ConfigRestored ==
  (calls # <<>> /\ AllSettled) => config = calls[1].entered

(***************************************************************************)
(* C12: encode calls in a row                                              *)
(***************************************************************************)
\* the earlier calls on the client that encoded the value of the current call
EarlierSame == {i \in 1..Len(history) : history[i].node = node}

\* C12: a call that encodes a value the client has encoded before, whatever
\* calls were made in between, ends as the earlier call did: it returns the
\* same string (the definition lines, so the alias of each prefix and their
\* order, and the data lines), or throws as the earlier call did.
C12_Deterministic ==
  /\ pc = "done" =>
       \A i \in EarlierSame : ~history[i].threw /\ history[i].result = result
  /\ pc = "threw" => \A i \in EarlierSame : history[i].threw

\* the third call encodes the value of the first with aliases, after a call
\* on another value that was given aliases too
C12_Witness ==
  /\ pc = "done"
  /\ Len(history) = 2
  /\ history[1].node = node /\ history[2].node # node
  /\ Len(definitions) = 2
  /\ history[2].result # <<>> /\ history[2].result[1] = "@"

(***************************************************************************)
(* C13 - C16, C18: what the encoder does with unusual values               *)
(***************************************************************************)
\* a tree of the supported types: null, boolean, number, string, object, array
RECURSIVE IsValue(_)
IsValue(v) ==
  CASE v.t \in {"null", "boolean", "number", "string"} -> TRUE
    [] v.t = "object" -> \A i \in 1..Len(v.e) : IsValue(v.e[i].v)
    [] v.t = "array" -> \A i \in 1..Len(v.a) : IsValue(v.a[i])
    [] OTHER -> FALSE

\* C13: with abbreviations disabled, no other value tree of the supported
\* types encodes to the string returned for the encoded tree.
C13_Lossless ==
  (pc = "done" /\ ~config.enableAbbreviations /\ IsValue(node)) =>
    \A other \in SampleDocs :
      (IsValue(other) /\ other # node) =>
        _flattenObject(other, config).result # result

\* a cell that renders null and the absent value as the literal null
NullCell(v) ==
  IF v.t \in {"null", "undefined"} THEN <<"n", "u", "l", "l">> ELSE Cell(v)

\* non-empty, no element an object or an array
FlatShape(v) ==
  /\ v.t = "array"
  /\ Len(v.a) > 0
  /\ \A i \in 1..Len(v.a) : v.a[i].t \notin {"object", "array"}

\* C14: null and the absent value (undefined) both render as the literal
\* null: as the value of a path:value line, as an element of a primitive
\* array, and as a cell of a tabular row.
C14_NullLiteral ==
  /\ (Called /\ node.t \in {"null", "undefined"}) =>
       output = << Label(prefix) \o <<":", "n", "u", "l", "l">> >>
  /\ (Called /\ FlatShape(node)) =>
       output = << prefix \o <<"[">> \o NumberToString(Len(node.a)) \o <<"]", ":">>
                     \o join([i \in 1..Len(node.a) |-> NullCell(node.a[i])],
                             <<",">>) >>
  /\ (Called /\ UniformShape(node)) =>
       \A i \in 1..Len(node.a) :
         split(output[1], "\n")[i + 1] =
           join([j \in 1..Len(node.a[1].e) |->
                   NullCell(ValueAt(node.a[i], node.a[1].e[j].k))],
                <<",">>)

\* C15: an empty array gives one line for its path, the empty-array literal;
\* it does not vanish from the output.
C15_EmptyArrayLine ==
  (Called /\ node.t = "array" /\ Len(node.a) = 0) =>
    /\ Len(output) = 1
    /\ startsWith(output[1], Label(prefix) \o <<":">>)
    /\ Len(output[1]) >= 2
    /\ SubSeq(output[1], Len(output[1]) - 1, Len(output[1])) = <<"[", "]">>

\* the tree holds a value of a type outside the supported ones
ContainsUnsupported(v) == ~IsValue(v)

\* C16: when the tree holds a value of an unsupported type (a function),
\* encode raises an error before it emits any line, and returns no string.
C16_RejectsUnsupported ==
  ContainsUnsupported(node) => pc \in {"start", "threw"}

\* C18: encode never raises on a value tree of the supported types, whatever
\* its keys; building the abbreviation table does not fail.
C18_NeverRaises ==
  IsValue(node) => pc # "threw"

(***************************************************************************)
(* C17: cyclic value graphs                                                *)
(***************************************************************************)
\* the cells that cell r refers to
Refs(r) ==
  {Deref(heap, VRef(r)).e[i].v.r :
     i \in {j \in 1..childCount(heap[r]) :
              heap[r].t = "object" /\ heap[r].e[j].v.t = "ref"}}
  \cup
  {Deref(heap, VRef(r)).a[i].r :
     i \in {j \in 1..childCount(heap[r]) :
              heap[r].t = "array" /\ heap[r].a[j].t = "ref"}}

\* the cells reachable from the cells S in at least one step
RECURSIVE ReachFrom(_, _)
ReachFrom(S, found) ==
  LET next == UNION {Refs(r) : r \in S} \ found
  IN  IF next = {} THEN found ELSE ReachFrom(next, found \cup next)

\* the value graph below the root holds a cell reachable from itself
Cyclic ==
  \E r \in {node.r} \cup ReachFrom({node.r}, {}) : r \in ReachFrom({r}, {})

\* the cells _flatten is working on, outermost first
Entered ==
  [i \in 1..Len(stack) |-> IF stack[i].v.t = "ref" THEN stack[i].v.r ELSE 0]

\* C17: on a value graph with a cycle encode fails fast: it does not return
\* normally, and it never enters a cell it is already working on (it raises
\* InvalidInputError there instead of recursing further).
C17_CycleRejected ==
  Cyclic =>
    /\ pc # "flattened"
    /\ \A i, j \in 1..Len(stack) :
         (i # j /\ Entered[i] # 0) => Entered[i] # Entered[j]

(***************************************************************************)
(* C19, C20: optimize on strings                                           *)
(***************************************************************************)
\* call c is optimize(s) for a string s
OptimizeOfString(c) ==
  calls[c].method = "optimize" /\ calls[c].rawData.t = "string"

\* s is not a JSON text
NotJSON(s) == ~JSONparse(s).ok

\* s is the JSON text of an object or of an array
JSONOfContainer(s) == JSONparse(s).ok /\ IsNonNullObject(JSONparse(s).v)

\* only optimize has been called on the client
OnlyOptimize == \A c \in 1..Len(calls) : calls[c].method = "optimize"

\* optimize(s) returned s itself, without waiting for anything
ReturnedAsIs(call) ==
  call.pc = "fulfilled" /\ call.result = call.rawData.s

\* optimize(s) handed s to the text optimizer and returns what it gives
ReturnsOptimized(call) ==
  /\ call.pc \in {"awaitOptimizer", "fulfilled"}
  /\ call.settles = "fulfilled"
  /\ call.result = _defaultTextOptimizer(call.rawData.s, call.entered)
  /\ \E i \in 1..Len(invoked) : invoked[i] = call.rawData.s

\* C19: optimize(s) for a string s that is not JSON returns s unchanged when
\* len(s) <= longTextThreshold and the text optimizer's result exactly when
\* len(s) > longTextThreshold; optimize never hands a text of at most
\* longTextThreshold characters to the text optimizer.
C19_TextThreshold ==
  /\ \A c \in 1..Len(calls) :
       (OptimizeOfString(c) /\ NotJSON(calls[c].rawData.s)) =>
         IF Len(calls[c].rawData.s) <= calls[c].entered.longTextThreshold
         THEN ReturnedAsIs(calls[c])
         ELSE ReturnsOptimized(calls[c]) /\ ~ReturnedAsIs(calls[c])
  /\ OnlyOptimize =>
       \A i \in 1..Len(invoked) : Len(invoked[i]) > config.longTextThreshold

\* one client has returned a text exactly as long as the threshold as it is
\* and a longer one through the text optimizer
C19_Witness ==
  \E c, d \in 1..Len(calls) :
    /\ OptimizeOfString(c) /\ NotJSON(calls[c].rawData.s)
    /\ Len(calls[c].rawData.s) = calls[c].entered.longTextThreshold
    /\ ReturnedAsIs(calls[c])
    /\ OptimizeOfString(d) /\ NotJSON(calls[d].rawData.s)
    /\ Len(calls[d].rawData.s) > calls[d].entered.longTextThreshold
    /\ calls[d].pc = "fulfilled"
    /\ invoked = <<calls[d].rawData.s>>

\* the call ended as the synchronous part outcome says
EndsAs(call, outcome) ==
  /\ call.pc = Position(outcome)
  /\ call.settles = Settlement(outcome)
  /\ call.result = outcome.value

\* C20: for every JSON text of an object or array, optimize(jsonString) ends
\* as optimize(value) does for the parsed value (the same string, or the same
\* failure), under every jsonMode.
C20_JsonTextAsValue ==
  \A c \in 1..Len(calls) :
    (OptimizeOfString(c) /\ JSONOfContainer(calls[c].rawData.s)) =>
      EndsAs(calls[c],
             optimize(JSONparse(calls[c].rawData.s).v, calls[c].entered))

\* optimize has returned for a JSON text with white space around it and a
\* repeated key, under a jsonMode that serialises the parsed value
C20_Witness ==
  \E c \in 1..Len(calls) :
    /\ OptimizeOfString(c)
    /\ calls[c].rawData.s = textRepeatedKey
    /\ JSONOfContainer(textRepeatedKey)
    /\ calls[c].entered.jsonMode = "ToYaml"
    /\ calls[c].pc = "fulfilled"
    /\ calls[c].result = JSONstringifyIndented(JSONparse(textRepeatedKey).v)

(***************************************************************************)
(* C21: the shape of the lines                                             *)
(***************************************************************************)
\* the line is "<key>: <value>": its first colon is followed by one space, and
\* the value after it is a single scalar (no row below it)
KeyColonSpaceValue(line) ==
  /\ FromFirst(line, ":") # <<>>
  /\ Len(FromFirst(line, ":")) >= 2
  /\ FromFirst(line, ":")[2] = " "
  /\ ~includes(FromFirst(line, ":"), "\n")

\* C21: every line of the Flatten output has the form "<key>: <value>", a
\* colon followed by one space, with a single scalar as its value.
C21_KeyColonSpace ==
  pc = "flattened" => \A i \in 1..Len(output) : KeyColonSpaceValue(output[i])

(***************************************************************************)
(* C22: rejected candidates                                                *)
(***************************************************************************)
\* the aliases of the candidates accepted before the i-th accepted one
AcceptedBefore(i) == {abbreviationMap[j].value : j \in 1..(i - 1)}

\* C22: a candidate rejected by the net-benefit test consumes no alias: each
\* accepted prefix has the alias it is given when only the aliases of the
\* prefixes accepted before it count as used.
C22_RejectedConsumeNothing ==
  Generated =>
    \A i \in 1..Len(abbreviationMap) :
      abbreviationMap[i].value =
        _generateAbbreviation(abbreviationMap[i].key, i - 1,
                              AcceptedBefore(i)).abbr

(***************************************************************************)
(* C23: optimize while brevity is pending                                  *)
(***************************************************************************)
\* the promise of the call is settled, or will be, as outcome says
SettlesAs(call, outcome) ==
  call.settles = Settlement(outcome) /\ call.result = outcome.value

\* C23: optimize(x) applies the jsonMode the client was configured with, also
\* when it starts while a brevity() call on the client is pending: its result
\* is the one it gives under the configuration the client was created with.
C23_OptimizeIndependent ==
  \A c \in 1..Len(calls) :
    calls[c].method = "optimize" =>
      SettlesAs(calls[c], optimize(calls[c].rawData, calls[1].entered))

(***************************************************************************)
(* C26: the uniform classification                                         *)
(***************************************************************************)
\* the array was written as one tabular entry, with the first element's keys
\* in the header
WrittenAsTable ==
  /\ Len(node.a) > 0
  /\ IsPlainObject(node.a[1])
  /\ Len(output) = 1
  /\ startsWith(output[1],
                prefix \o <<"[">> \o NumberToString(Len(node.a)) \o <<"]", "{">>
                  \o join(ObjectKeys(node.a[1]), <<",">>) \o <<"}", ":", "\n">>)

\* C26: an array is classified uniform exactly when it is non-empty and every
\* element is a non-null, non-array object whose key set equals the first
\* element's, in any order; and when it is classified uniform with keys K,
\* every element has exactly len(K) keys and lacks none of them.
C26_Uniform ==
  (Called /\ IsArray(node)) =>
    /\ (_isUniformObjectArray(node) # VNull) <=> UniformShape(node)
    /\ UniformShape(node) <=> WrittenAsTable
    /\ _isUniformObjectArray(node) # VNull =>
         \A i \in 1..Len(node.a) :
           /\ Len(ObjectKeys(node.a[i])) = Len(_isUniformObjectArray(node).keys)
           /\ Range(_isUniformObjectArray(node).keys) \subseteq KeySet(node.a[i])

\* arrays classified uniform although the keys come in another order, and
\* arrays not classified uniform although every key of every element is one
\* of the first element's, or although all elements have as many keys
C26_Witness ==
  /\ Called
  /\ IsArray(node)
  /\ \/ /\ WrittenAsTable
        /\ Len(node.a) > 1
        /\ ObjectKeys(node.a[2]) # ObjectKeys(node.a[1])
     \/ /\ ~WrittenAsTable
        /\ node.a = <<itemA, itemSkuOnlyT>>

(***************************************************************************)
(* C24: the rewrite of the data lines                                      *)
(***************************************************************************)
Applied == pc \in {"applied", "done"}

\* the entries of the table whose prefix, followed by a dot, starts the path
\* of line i
Matching(i) ==
  {k \in 1..Len(abbreviationMap) :
     IsStrictDottedPrefix(abbreviationMap[k].key, Before(output[i], ":"))}

\* the entry of Matching(i) with the longest prefix
Longest(i) ==
  CHOOSE k \in Matching(i) :
    \A m \in Matching(i) :
      Len(abbreviationMap[m].key) <= Len(abbreviationMap[k].key)

\* line with its first n characters replaced by "@alias"
Rewritten(line, n, alias) ==
  <<"@">> \o alias \o SubSeq(line, n + 1, Len(line))

\* C24: each data line is rewritten at most once; when it is, the longest
\* accepted prefix P with the path starting with P + '.' is replaced by @alias
\* and the dot and the rest of the line are kept; a line whose path matches no
\* accepted prefix is left unchanged.
C24_LongestPrefix ==
  Applied =>
    /\ Len(abbreviatedOutput) = Len(output)
    /\ \A i \in 1..Len(output) :
         IF Matching(i) = {}
         THEN abbreviatedOutput[i] = output[i]
         ELSE abbreviatedOutput[i] =
                Rewritten(output[i], Len(abbreviationMap[Longest(i)].key),
                          abbreviationMap[Longest(i)].value)

\* one line matches two accepted prefixes and is rewritten with the longer,
\* and another line matches none and is kept
C24_Witness ==
  /\ Applied
  /\ \E i \in 1..Len(output) :
       /\ Cardinality(Matching(i)) > 1
       /\ abbreviatedOutput[i] # output[i]
  /\ \E i \in 1..Len(output) :
       Matching(i) = {} /\ abbreviatedOutput[i] = output[i]

(***************************************************************************)
(* C25: the order of the definition lines                                  *)
(***************************************************************************)
\* the first line whose path has prefix p as a strict dotted prefix
FirstLineWith(p) ==
  CHOOSE i \in 1..Len(output) :
    /\ IsStrictDottedPrefix(p, CountedPath(output[i]))
    /\ \A j \in 1..(i - 1) : ~IsStrictDottedPrefix(p, CountedPath(output[j]))

\* definition line i may stand before definition line j
OrderedDefinitions(i, j) ==
  \/ CountCounted(DefPrefix(definitions[i])) > CountCounted(DefPrefix(definitions[j]))
  \/ /\ CountCounted(DefPrefix(definitions[i])) = CountCounted(DefPrefix(definitions[j]))
     /\ Len(DefPrefix(definitions[i])) <= Len(DefPrefix(definitions[j]))

\* C25: the definition lines appear in order of non-increasing occurrence
\* count and, among prefixes of equal count, non-decreasing prefix length; the
\* table holds the accepted prefixes in the same order.
C25_DefinitionOrder ==
  Generated =>
    /\ \A i, j \in 1..Len(definitions) : i < j => OrderedDefinitions(i, j)
    /\ Len(abbreviationMap) = Len(definitions)
    /\ \A i \in 1..Len(definitions) :
         abbreviationMap[i].key = DefPrefix(definitions[i])

\* a prefix met later in the data is defined first because it occurs more
\* often, and two prefixes of equal count are defined shorter first
C25_Witness ==
  /\ Generated
  /\ \E i, j \in 1..Len(definitions) :
       /\ i < j
       /\ CountCounted(DefPrefix(definitions[i])) > CountCounted(DefPrefix(definitions[j]))
       /\ FirstLineWith(DefPrefix(definitions[j])) < FirstLineWith(DefPrefix(definitions[i]))
  /\ \E i, j \in 1..Len(definitions) :
       /\ i < j
       /\ CountCounted(DefPrefix(definitions[i])) = CountCounted(DefPrefix(definitions[j]))
       /\ Len(DefPrefix(definitions[i])) < Len(DefPrefix(definitions[j]))

(***************************************************************************)
(* C27: the alias of a candidate                                           *)
(***************************************************************************)
\* the lowercase first character of the first segment of p
FirstInitial(p) == toLowerCase(<<Before(p, ".")[1]>>)

\* the lowercase first characters of all dot-segments of p
RECURSIVE Initials(_)
Initials(p) ==
  (IF Before(p, ".") = <<>> THEN <<>> ELSE toLowerCase(<<Before(p, ".")[1]>>))
    \o (IF includes(p, ".")
        THEN Initials(SubSeq(p, Len(Before(p, ".")) + 2, Len(p)))
        ELSE <<>>)

\* a, b, ..., z, aa, ab, ...: the alias number n, counted from 0
RECURSIVE CounterAlias(_)
CounterAlias(n) ==
  IF n < 26 THEN <<LowerCase[n + 1]>>
  ELSE CounterAlias((n \div 26) - 1) \o <<LowerCase[(n % 26) + 1]>>

\* the alias the rule gives prefix p when the counter is n and used is used
AliasRule(p, n, used) ==
  IF FirstInitial(p) \notin used THEN FirstInitial(p)
  ELSE IF Len(Initials(p)) <= 3 /\ Initials(p) \notin used THEN Initials(p)
  ELSE CounterAlias(n)

\* sets of used aliases that take the rule through each of its cases
UsedSets(p) == SUBSET {FirstInitial(p), Initials(p), <<"a">>, <<"b">>}

\* C27: the alias generated for a candidate prefix is the lowercase first
\* character of its first segment if that is unused; otherwise the lowercase
\* initials of all its dot-segments if they are at most 3 characters and
\* unused; otherwise the base-26 counter alias a, b, ..., z, aa, ab, ...
\* Checked for the candidates of the call, and on the aliases the call gave.
C27_AliasRule ==
  pc = "generated" =>
    /\ \A p \in {q \in Candidates : Before(q, ".") # <<>>} :
         /\ \A used \in UsedSets(p) : \A n \in 0..1 :
              _generateAbbreviation(p, n, used).abbr = AliasRule(p, n, used)
         /\ \A n \in 0..MaxCounter :
              _generateAbbreviation(p, n, {FirstInitial(p), Initials(p)}).abbr
                = CounterAlias(n)
    /\ \A i \in 1..Len(abbreviationMap) :
         \E used \in UsedSets(abbreviationMap[i].key) :
           abbreviationMap[i].value = AliasRule(abbreviationMap[i].key, i - 1, used)

\* the call has given the counter alias to a prefix whose first letter was
\* used and whose initials are more than 3 characters
C27_Witness ==
  /\ pc = "generated"
  /\ \E i \in 1..Len(abbreviationMap) :
       /\ Len(Initials(abbreviationMap[i].key)) > 3
       /\ abbreviationMap[i].value = CounterAlias(i - 1)
       /\ abbreviationMap[i].value # FirstInitial(abbreviationMap[i].key)

(***************************************************************************)
(* C28: brevity on objects, arrays and JSON texts                          *)
(***************************************************************************)
\* call c is brevity on an object, an array or the JSON text of one
BrevityOfData(c) ==
  /\ calls[c].method = "brevity"
  /\ \/ IsNonNullObject(calls[c].rawData)
     \/ calls[c].rawData.t = "string" /\ JSONOfContainer(calls[c].rawData.s)

\* the object or array the input stands for
DataOf(rawData) ==
  IF rawData.t = "string" THEN JSONparse(rawData.s).v ELSE rawData

\* the analysis of value offers the ToYaml strategy
OffersToYaml(value, cfg) ==
  /\ _analyzeDataStructure(value, cfg).complexity = "moderate"
  /\ ~_analyzeDataStructure(value, cfg).hasUniformArrays

\* C28: for an object, an array or the JSON text of one, brevity() returns
\* the Flatten encoding whatever jsonMode the client is configured with: the
\* strategy selected never has jsonMode ToYaml.
C28_BrevityFlattens ==
  \A c \in 1..Len(calls) :
    BrevityOfData(c) =>
      /\ SettlesAs(calls[c],
                   returnOrThrow(_flattenObject(DataOf(calls[c].rawData),
                                                calls[c].entered)))
      /\ tempConfigOf(DataOf(calls[c].rawData), calls[c].entered).jsonMode
           = "Flatten"

\* brevity has returned the Flatten encoding on a client configured with
\* ToYaml, for a value whose analysis offers the ToYaml strategy
C28_Witness ==
  \E c \in 1..Len(calls) :
    /\ BrevityOfData(c)
    /\ calls[c].pc = "fulfilled"
    /\ calls[1].entered.jsonMode = "ToYaml"
    /\ OffersToYaml(DataOf(calls[c].rawData), calls[c].entered)
    /\ calls[c].result # JSONstringifyIndented(DataOf(calls[c].rawData))

(***************************************************************************)
(* C29: quoting                                                            *)
(***************************************************************************)
\* the text holds a comma, a newline or a double quote
NeedsQuotes(text) == \E i \in 1..Len(text) : text[i] \in {",", "\n", "\""}

\* the text in double quotes, each of its double quotes behind a backslash
Quoted(text) ==
  <<"\"">>
    \o Concat([i \in 1..Len(text) |->
                 IF text[i] = "\"" THEN <<"\\", "\"">> ELSE <<text[i]>>])
    \o <<"\"">>

\* a rendered scalar in a comma-joined context
Joined(text) == IF NeedsQuotes(text) THEN Quoted(text) ELSE text

\* the rendered value under key of a tabular element
CellText(obj, key) ==
  IF ValueAt(obj, key).t \in {"null", "undefined"} THEN <<"n", "u", "l", "l">>
  ELSE String(ValueAt(obj, key))

\* the rows of a uniform array
ExpectedRows(arr) ==
  join([i \in 1..Len(arr.a) |->
          join([j \in 1..Len(arr.a[1].e) |->
                  Joined(CellText(arr.a[i], arr.a[1].e[j].k))],
               <<",">>)],
       <<"\n">>)

\* C29: in primitive-array values and tabular cells a rendered scalar is in
\* double quotes, its inner double quotes backslash-escaped, exactly when it
\* holds a comma, a newline or a double quote; the value of a single
\* path:value line is never quoted or escaped.
C29_Quoting ==
  Called =>
    /\ PrimitiveShape(node) =>
         /\ Len(output) = 1
         /\ FromFirst(output[1], ":")
              = <<":">> \o join([i \in 1..Len(node.a) |-> Joined(String(node.a[i]))],
                                <<",">>)
    /\ UniformShape(node) =>
         /\ Len(output) = 1
         /\ FromFirst(output[1], "\n") = <<"\n">> \o ExpectedRows(node)
    /\ IsScalar(node) => output = <<Label(prefix) \o <<":">> \o String(node)>>

\* a table with a cell quoted for its comma, a cell quoted with its double
\* quote escaped and cells written as they are
C29_Witness ==
  /\ Called
  /\ UniformShape(node)
  /\ \E i \in 1..Len(node.a) : \E j \in 1..Len(node.a[i].e) :
       includes(String(node.a[i].e[j].v), "\"")
  /\ \E i \in 1..Len(node.a) : \E j \in 1..Len(node.a[i].e) :
       includes(String(node.a[i].e[j].v), ",")
  /\ \E i \in 1..Len(node.a) : \E j \in 1..Len(node.a[i].e) :
       ~NeedsQuotes(String(node.a[i].e[j].v))
  /\ Len(output) = 1

(***************************************************************************)
(* C30: the length of the abbreviated output                               *)
(***************************************************************************)
\* C30: the string encoded with enableAbbreviations = true is never longer
\* than the string encoded for the same value with enableAbbreviations =
\* false, which is the emitted lines joined by newlines.
C30_NeverLonger ==
  (pc = "done" /\ config.enableAbbreviations) =>
    /\ Len(result) <= Len(join(output, <<"\n">>))
    /\ Len(result) <= Len(_flattenObject(node, [config EXCEPT
                                                  !.enableAbbreviations = FALSE]).result)

====
